---- MODULE Spec2Model ----
(***************************************************************************)
(* Model of dorado's MetalCaller (src/dorado/basecall/MetalCaller.cpp):    *)
(* the batch accelerator-inference scheduler and its overlapped decode     *)
(* pipeline.  Client threads call call_chunks, one compute thread          *)
(* (metal_thread_fn) submits each task to the accelerator with retries,    *)
(* and a pool of decode threads (decode_thread_fn) decodes the chunks.     *)
(* set_chunk_batch_size is modelled as a function of its arguments.        *)
(* LifeSpec adds the constructor's last statements, terminate() and        *)
(* restart(); BenchSpec is the constructor with benchmark_batch_sizes.     *)
(* PairingSpec is the read cache of PairingNode's pair-generating workers  *)
(* (src/dorado/read_pipeline/PairingNode.cpp).                             *)
(***************************************************************************)
EXTENDS Integers, Sequences, FiniteSets, Bags, TLC

\* ------------------------------------------------------------------ bounds
NumDecodeThreads == 2
MaxCalls == 2
MaxChunks == 2
MaxPieces == 10
MaxCores == 4
MaxRestarts == 2

\* ------------------------------------------------------- program constants
MTL_CORE_BATCH_SIZE == 48
kMaxBufferSize == 536870912
SizeofFloat == 4
RetryBudget == 5
SizeofInt16 == 2
kNumSmallerSizes == 16
\* std::numeric_limits<long long>::max(), at the width of the model's integers:
\* above every per-element time that can be measured.
LLongMax == 2147483647


VARIABLES
    tasks,                  \* every NNTask created so far, in creation order
    m_input_queue,          \* deque of task indices, element 1 is the front
    m_decode_queue,         \* deque of task indices, element 1 is the front
    nzero,                  \* number of call_chunks calls made with num_chunks == 0
    mpc,                    \* position of the compute thread in metal_thread_fn
    mtask,                  \* the task held by the compute thread (0: none)
    try_count,              \* the retry loop's counter
    fwd_count,              \* forward_async calls made for the task held
    scan_count,             \* run_scan_kernels calls made for the task held
    next_decode_complete_event_id,
    signaled,               \* signaled value of m_decode_complete_event
    scores,                 \* completion id whose scores the buffers hold
    m_decode_threads,       \* bag of the decode threads' positions and locals
    m_terminate,
    m_terminate_decode,
    config,                 \* arguments of the latest set_chunk_batch_size call
    bufset,                 \* the members set_chunk_batch_size assigns
    ctl,                    \* position of the thread that constructs, terminates
                            \* and restarts the caller
    restarts,               \* number of restart() calls made
    bench,                  \* arguments and locals of benchmark_batch_sizes
    inter_caller_mutex,     \* the caller whose compute thread holds the static
                            \* mutex of metal_thread_fn (0: nobody)
    callers,                \* the callers of the process, each with the position
                            \* of its constructor and of its compute thread
    m_work_queue,           \* PairingNode: messages pushed and not yet popped
    work_queue_terminated,  \* PairingNode: terminate_input_queue was called
    m_read_caches,          \* PairingNode: client id -> ReadCache
    m_workers,              \* PairingNode: worker threads' positions and locals
    m_num_active_worker_threads,
    m_preserve_cache_during_flush,
    m_max_num_keys,
    m_max_num_reads,
    sink,                   \* PairingNode: bag of the messages sent to the sink
    pairing_ctl,            \* position of the thread that constructs, terminates
                            \* and restarts the PairingNode
    num_pushed              \* messages pushed to the PairingNode so far

vars == <<tasks, m_input_queue, m_decode_queue, nzero, mpc, mtask, try_count,
          fwd_count, scan_count, next_decode_complete_event_id, signaled, scores,
          m_decode_threads, m_terminate, m_terminate_decode, config, bufset,
          ctl, restarts, bench, inter_caller_mutex, callers,
          m_work_queue, work_queue_terminated, m_read_caches, m_workers,
          m_num_active_worker_threads, m_preserve_cache_during_flush,
          m_max_num_keys, m_max_num_reads, sink, pairing_ctl, num_pushed>>

\* The state of the PairingNode, which no MetalCaller operation touches.
pairing_vars == <<m_work_queue, work_queue_terminated, m_read_caches, m_workers,
                  m_num_active_worker_threads, m_preserve_cache_during_flush,
                  m_max_num_keys, m_max_num_reads, sink, pairing_ctl, num_pushed>>

\* ------------------------------------------------ set_chunk_batch_size

\* Variant of SplitLoop that takes the first split whose pieces are small
\* enough, whether or not it divides the number of batch pieces.
RECURSIVE SplitLoopNoDivisorTest(_, _, _)
SplitLoopNoDivisorTest(out_split, num_batch_pieces, complete_linear_out_size) ==
    IF out_split < num_batch_pieces
    THEN IF complete_linear_out_size \div out_split <= kMaxBufferSize
         THEN out_split
         ELSE SplitLoopNoDivisorTest(out_split + 1, num_batch_pieces,
                                     complete_linear_out_size)
    ELSE out_split

\* Variant of SplitLoop that keeps searching after a divisor that is small
\* enough and returns the largest one below num_batch_pieces.
RECURSIVE SplitLoopNoBreak(_, _, _)
SplitLoopNoBreak(out_split, num_batch_pieces, complete_linear_out_size) ==
    IF out_split < num_batch_pieces
    THEN LET rest == SplitLoopNoBreak(out_split + 1, num_batch_pieces,
                                      complete_linear_out_size)
         IN  IF /\ rest = num_batch_pieces
                /\ num_batch_pieces % out_split = 0
                /\ complete_linear_out_size \div out_split <= kMaxBufferSize
             THEN out_split
             ELSE rest
    ELSE out_split

\* The loop of lines 190-195: the value of m_out_split when the loop ends.
RECURSIVE SplitLoop(_, _, _)
SplitLoop(out_split, num_batch_pieces, complete_linear_out_size) ==
    IF out_split < num_batch_pieces
    THEN IF /\ num_batch_pieces % out_split = 0
            /\ complete_linear_out_size \div out_split <= kMaxBufferSize
         THEN out_split
         ELSE SplitLoop(out_split + 1, num_batch_pieces, complete_linear_out_size)
    ELSE out_split

CompleteLinearOutSize(out_chunk_size, batch_size, outsize) ==
    out_chunk_size * batch_size * outsize * SizeofFloat

\* Variant of OutChunkSize that rounds the quotient up.
OutChunkSizeRoundedUp(chunk_size, stride) == (chunk_size + stride - 1) \div stride

\* Chunk size after decimation via convolution stride.
OutChunkSize(chunk_size, stride) == chunk_size \div stride

\* Variant of AllocBuffers that allocates a single buffer whatever the split.
AllocBuffersUnsplit(out_split, shape) == [i \in 1..1 |-> shape]

\* The vector filled by the loop of lines 227-233: one tensor shape per split.
AllocBuffers(out_split, shape) == [i \in 1..out_split |-> shape]

\* The members of the caller after set_chunk_batch_size(cfg).
SetChunkBatchSizeResult(cfg) ==
    LET out_chunk_size == OutChunkSize(cfg.chunk_size, cfg.stride)
        num_batch_pieces == cfg.batch_size \div MTL_CORE_BATCH_SIZE
        out_split == SplitLoop(1, num_batch_pieces,
                               CompleteLinearOutSize(out_chunk_size, cfg.batch_size,
                                                     cfg.outsize))
        out_batch_size == cfg.batch_size \div out_split
    IN  [m_out_chunk_size |-> out_chunk_size,
         m_in_chunk_size |-> out_chunk_size * cfg.stride,
         m_batch_size |-> cfg.batch_size,
         m_out_split |-> out_split,
         m_out_batch_size |-> out_batch_size,
         assert_pieces |-> num_batch_pieces % out_split = 0,
         assert_batch |-> cfg.batch_size % out_split = 0,
         assert_quantum |-> out_batch_size % MTL_CORE_BATCH_SIZE = 0,
         m_scores_int8 |-> AllocBuffers(out_split,
                               <<out_chunk_size, out_batch_size, cfg.outsize>>),
         m_posts_int16 |-> AllocBuffers(out_split,
                               <<out_batch_size, out_chunk_size + 1, cfg.states>>),
         m_bwd |-> AllocBuffers(out_split,
                               <<out_batch_size, out_chunk_size + 1, cfg.states>>)]

\* The members before the first set_chunk_batch_size call.
Unconfigured ==
    [m_out_chunk_size |-> 0, m_in_chunk_size |-> 0, m_batch_size |-> 0,
     m_out_split |-> 0, m_out_batch_size |-> 0,
     assert_pieces |-> TRUE, assert_batch |-> TRUE, assert_quantum |-> TRUE,
     m_scores_int8 |-> <<>>, m_posts_int16 |-> <<>>, m_bwd |-> <<>>]

ChunkSizes == {1999, 2000, 4000, 8000}
Strides == {5, 6}
OutSizes == {256, 1024, 1400, 4096}
StateCounts == {64, 1024}
BatchSizes == {MTL_CORE_BATCH_SIZE * k : k \in 1..MaxPieces}

\* The byte count of the whole linear layer output fits the model's 32-bit
\* integers; configurations beyond that are left out of the input set.
Representable(cfg) ==
    (cfg.chunk_size \div cfg.stride) * cfg.batch_size
        <= 2147483647 \div (cfg.outsize * SizeofFloat)

Configs ==
    {cfg \in [chunk_size : ChunkSizes, stride : Strides, batch_size : BatchSizes,
              outsize : OutSizes, states : StateCounts] : Representable(cfg)}

\* The configuration the scheduler runs with.
RunConfig ==
    [chunk_size |-> 2000, stride |-> 5, batch_size |-> 480, outsize |-> 1024,
     states |-> 64]

\* --------------------------------------------------------------- deques
\* Variant of Back that takes the element at the front.
BackIsFront(q) == q[1]

PushFront(q, x) == <<x>> \o q
Back(q) == q[Len(q)]
PopBack(q) == SubSeq(q, 1, Len(q) - 1)

\* --------------------------------------------------------------- NNTask
\* client is the position of the thread that created the task inside
\* call_chunks: "check" (about to evaluate the wait condition with task->mut
\* held), "waiting" (blocked in task->cv.wait) or "returned".
NNTask(num_chunks_) ==
    [num_chunks |-> num_chunks_,
     decode_chunks_started |-> 0,
     decode_chunks_finished |-> 0,
     decode_complete_event_id |-> 0,
     out_chunks |-> [i \in 0..(num_chunks_ - 1) |-> <<>>],
     submitted |-> FALSE,
     client |-> "check"]

\* An uncaught exception in the compute thread ends the process.
Alive == mpc /= "thrown"

\* A decode thread waiting for work.
IdleThread == [pc |-> "wait", task |-> 0, chunk_idx |-> 0]

\* The pool after one thread in state s has moved to state s2.
Moved(s, s2) == (m_decode_threads (-) SetToBag({s})) (+) SetToBag({s2})

\* The members other than the threads and the buffers, as constructed.
MembersInit ==
    /\ tasks = <<>>
    /\ m_input_queue = <<>>
    /\ m_decode_queue = <<>>
    /\ nzero = 0
    /\ mtask = 0
    /\ try_count = 0
    /\ fwd_count = 0
    /\ scan_count = 0
    /\ next_decode_complete_event_id = 1
    /\ signaled = 0
    /\ scores = 0
    /\ m_terminate = FALSE
    /\ m_terminate_decode = FALSE

\* start_threads: the compute thread and the decode threads wait for work.
ThreadsStarted ==
    /\ mpc = "wait"
    /\ m_decode_threads = [s \in {IdleThread} |-> NumDecodeThreads]

\* benchmark_batch_sizes is not running.
NoBench == [pc |-> "none"]

\* The process holds this caller only: nobody contends for inter_caller_mutex.
OneCaller ==
    /\ inter_caller_mutex = 0
    /\ callers = <<>>

\* No PairingNode has been constructed.
NoPairingNode ==
    /\ m_work_queue = <<>>
    /\ work_queue_terminated = FALSE
    /\ m_read_caches = <<>>
    /\ m_workers = EmptyBag
    /\ m_num_active_worker_threads = 0
    /\ m_preserve_cache_during_flush = FALSE
    /\ m_max_num_keys = 0
    /\ m_max_num_reads = 0
    /\ sink = EmptyBag
    /\ pairing_ctl = "unconstructed"
    /\ num_pushed = 0

\* The state the constructor leaves: buffers configured, threads started.
Init ==
    /\ MembersInit
    /\ ThreadsStarted
    /\ config = RunConfig
    /\ bufset = SetChunkBatchSizeResult(RunConfig)
    /\ ctl = "idle"
    /\ restarts = 0
    /\ OneCaller
    /\ NoPairingNode
    /\ bench = NoBench

\* ---------------------------------------------------------- call_chunks
\* Variant of IsEmptyCall that lets an empty call through.
IsEmptyCallNegativeOnly(num_chunks) == num_chunks < 0

IsEmptyCall(num_chunks) == num_chunks = 0

\* Variant of WaitOver that looks at the chunks picked up, not the chunks decoded.
WaitOverStarted(t) == tasks[t].decode_chunks_started = tasks[t].num_chunks

\* Variant of WaitOver that is satisfied by the completion of any task.
WaitOverAny(t) ==
    \E u \in DOMAIN tasks : tasks[u].decode_chunks_finished = tasks[u].num_chunks

\* The loop condition of the client's wait: TRUE when the wait is over.
WaitOver(t) == tasks[t].decode_chunks_finished = tasks[t].num_chunks

\* A client thread calls call_chunks with num_chunks = n, up to the first
\* evaluation of the wait condition; limit bounds the number of calls made.
CallChunksWithin(n, limit) ==
    /\ Alive
    /\ Len(tasks) + nzero < limit
    /\ nzero' = IF n = 0 THEN nzero + 1 ELSE nzero
    /\ IF IsEmptyCall(n)
       THEN UNCHANGED <<tasks, m_input_queue>>
       ELSE /\ tasks' = Append(tasks, NNTask(n))
            /\ m_input_queue' = PushFront(m_input_queue, Len(tasks) + 1)
    /\ UNCHANGED <<m_decode_queue, mpc, mtask, try_count, fwd_count, scan_count,
                   next_decode_complete_event_id, signaled, scores, m_decode_threads,
                   m_terminate, m_terminate_decode, config, bufset,
                   ctl, restarts, bench,
                   inter_caller_mutex, callers, pairing_vars>>

CallChunks(n) == CallChunksWithin(n, MaxCalls)

\* One evaluation of the wait loop's condition with task->mut held: return, or
\* release the mutex and block on task->cv.
ClientCheck(t) ==
    /\ Alive
    /\ tasks[t].client = "check"
    /\ tasks' = [tasks EXCEPT ![t].client =
                     IF WaitOver(t) THEN "returned" ELSE "waiting"]
    /\ UNCHANGED <<m_input_queue, m_decode_queue, nzero, mpc, mtask, try_count,
                   fwd_count, scan_count, next_decode_complete_event_id, signaled,
                   scores, m_decode_threads, m_terminate, m_terminate_decode,
                   config, bufset,
                   ctl, restarts, bench,
                   inter_caller_mutex, callers, pairing_vars>>

\* condition_variable::wait may return without a notification.
SpuriousWake(t) ==
    /\ Alive
    /\ tasks[t].client = "waiting"
    /\ tasks' = [tasks EXCEPT ![t].client = "check"]
    /\ UNCHANGED <<m_input_queue, m_decode_queue, nzero, mpc, mtask, try_count,
                   fwd_count, scan_count, next_decode_complete_event_id, signaled,
                   scores, m_decode_threads, m_terminate, m_terminate_decode,
                   config, bufset,
                   ctl, restarts, bench,
                   inter_caller_mutex, callers, pairing_vars>>

\* ------------------------------------------------------ metal_thread_fn
\* Variant of HoldOffId that waits on the value signaled when the event was created.
HoldOffIdZero(decode_complete_event_id) == 0

\* Variant of HoldOffId that waits on the task's own completion id.
HoldOffIdSelf(decode_complete_event_id) == decode_complete_event_id

HoldOffId(decode_complete_event_id) == decode_complete_event_id - 1

\* The accelerator starts the linear layer only once the shared event has
\* reached the value the command buffer waits for.
EventReached(value) == signaled >= value

\* Variant of LoopContinues with an inclusive bound.
LoopContinuesInclusive(tc) == tc <= RetryBudget

LoopContinues(tc) == tc < RetryBudget

\* Variant of AfterLoop without the test of cb_success.
AfterLoopUnchecked(cb_success) == "handoff"

AfterLoop(cb_success) == IF cb_success THEN "handoff" ELSE "thrown"

\* Variant of AfterFailedTry that leaves the loop as if the attempt had
\* succeeded.
AfterFailedTryHandoff(tc) == "handoff"

\* try_count is incremented after a failed attempt and the loop condition is
\* evaluated again.
AfterFailedTry(tc) == IF LoopContinues(tc) THEN "forward" ELSE AfterLoop(FALSE)

MetalDequeue ==
    /\ mpc = "wait"
    /\ m_input_queue /= <<>>
    /\ LET t == Back(m_input_queue) IN
        /\ mtask' = t
        /\ tasks' = [tasks EXCEPT ![t].decode_complete_event_id =
                                      next_decode_complete_event_id]
    /\ m_input_queue' = PopBack(m_input_queue)
    /\ next_decode_complete_event_id' = next_decode_complete_event_id + 1
    /\ try_count' = 0
    /\ fwd_count' = 0
    /\ scan_count' = 0
    /\ mpc' = "forward"
    /\ UNCHANGED <<m_decode_queue, nzero, signaled, scores, m_decode_threads,
                   m_terminate, m_terminate_decode, config, bufset,
                   ctl, restarts, bench,
                   inter_caller_mutex, callers, pairing_vars>>

\* forward_async returns nullptr: sleep and retry.
ForwardFail ==
    /\ mpc = "forward"
    /\ fwd_count' = fwd_count + 1
    /\ tasks' = [tasks EXCEPT ![mtask].submitted = TRUE]
    /\ try_count' = try_count + 1
    /\ mpc' = AfterFailedTry(try_count + 1)
    /\ UNCHANGED <<m_input_queue, m_decode_queue, nzero, mtask, scan_count,
                   next_decode_complete_event_id, signaled, scores, m_decode_threads,
                   m_terminate, m_terminate_decode, config, bufset,
                   ctl, restarts, bench,
                   inter_caller_mutex, callers, pairing_vars>>

\* forward_async returns a command buffer holding the wait and the linear
\* layer; run_scan_kernels adds the scans and commits it.
ForwardOk ==
    /\ mpc = "forward"
    /\ fwd_count' = fwd_count + 1
    /\ scan_count' = scan_count + 1
    /\ tasks' = [tasks EXCEPT ![mtask].submitted = TRUE]
    /\ mpc' = "scan"
    /\ UNCHANGED <<m_input_queue, m_decode_queue, nzero, mtask, try_count,
                   next_decode_complete_event_id, signaled, scores, m_decode_threads,
                   m_terminate, m_terminate_decode, config, bufset,
                   ctl, restarts, bench,
                   inter_caller_mutex, callers, pairing_vars>>

\* The accelerator passes the wait and starts overwriting the score buffers.
GpuBegin ==
    /\ mpc = "scan"
    /\ EventReached(HoldOffId(tasks[mtask].decode_complete_event_id))
    /\ scores' = tasks[mtask].decode_complete_event_id
    /\ mpc' = "gpu"
    /\ UNCHANGED <<tasks, m_input_queue, m_decode_queue, nzero, mtask, try_count,
                   fwd_count, scan_count, next_decode_complete_event_id, signaled,
                   m_decode_threads, m_terminate, m_terminate_decode, config, bufset,
                   ctl, restarts, bench,
                   inter_caller_mutex, callers, pairing_vars>>

\* run_scan_kernels returns true: the command buffer completed.
ScanOk ==
    /\ mpc = "gpu"
    /\ mpc' = AfterLoop(TRUE)
    /\ UNCHANGED <<tasks, m_input_queue, m_decode_queue, nzero, mtask, try_count,
                   fwd_count, scan_count, next_decode_complete_event_id, signaled,
                   scores, m_decode_threads, m_terminate, m_terminate_decode, config,
                   bufset,
                   ctl, restarts, bench,
                   inter_caller_mutex, callers, pairing_vars>>

\* Variant of ScanFail in which a failure of the scan kernels is retried
\* without counting as an attempt.
ScanFailUncounted ==
    /\ mpc \in {"scan", "gpu"}
    /\ mpc' = "forward"
    /\ UNCHANGED <<tasks, m_input_queue, m_decode_queue, nzero, mtask, try_count,
                   fwd_count, scan_count, next_decode_complete_event_id, signaled,
                   scores, m_decode_threads, m_terminate, m_terminate_decode, config,
                   bufset, ctl, restarts, bench,
                   inter_caller_mutex, callers, pairing_vars>>

\* run_scan_kernels returns false, before or after the accelerator ran.
ScanFail ==
    /\ mpc \in {"scan", "gpu"}
    /\ try_count' = try_count + 1
    /\ mpc' = AfterFailedTry(try_count + 1)
    /\ UNCHANGED <<tasks, m_input_queue, m_decode_queue, nzero, mtask, fwd_count,
                   scan_count, next_decode_complete_event_id, signaled, scores,
                   m_decode_threads, m_terminate, m_terminate_decode, config, bufset,
                   ctl, restarts, bench,
                   inter_caller_mutex, callers, pairing_vars>>

\* Pass the task on to the decode threads.
MetalHandoff ==
    /\ mpc = "handoff"
    /\ m_decode_queue' = PushFront(m_decode_queue, mtask)
    /\ mpc' = "wait"
    /\ mtask' = 0
    /\ try_count' = 0
    /\ fwd_count' = 0
    /\ scan_count' = 0
    /\ UNCHANGED <<tasks, m_input_queue, nzero, next_decode_complete_event_id,
                   signaled, scores, m_decode_threads, m_terminate,
                   m_terminate_decode, config, bufset,
                   ctl, restarts, bench,
                   inter_caller_mutex, callers, pairing_vars>>

\* ----------------------------------------------------- decode_thread_fn
\* Variant of IsLastChunk that fires one index late.
IsLastChunkPastEnd(chunk_idx, num_chunks) == chunk_idx = num_chunks

\* Variant of IsLastChunk that never fires.
IsLastChunkNever(chunk_idx, num_chunks) == FALSE

IsLastChunk(chunk_idx, num_chunks) == chunk_idx = num_chunks - 1

\* Variant of IsDone comparing the counter's value before the increment.
IsDonePostIncrement(decode_chunks_finished, num_chunks) ==
    decode_chunks_finished - 1 = num_chunks

\* Variant of IsDone that is satisfied by any finished chunk.
IsDoneAny(decode_chunks_finished, num_chunks) == decode_chunks_finished >= 1

IsDone(decode_chunks_finished, num_chunks) == decode_chunks_finished = num_chunks

\* Variant of DecodeClaim that reads decode_chunks_started without
\* incrementing it.
DecodeClaimNoIncrement(s) ==
    /\ Alive
    /\ s.pc = "wait"
    /\ m_decode_queue /= <<>>
    /\ LET t == Back(m_decode_queue)
           chunk_idx == tasks[t].decode_chunks_started
       IN  /\ m_decode_threads' =
                  Moved(s, [pc |-> "decode", task |-> t, chunk_idx |-> chunk_idx])
           /\ m_decode_queue' = IF chunk_idx = tasks[t].num_chunks - 1
                                THEN PopBack(m_decode_queue)
                                ELSE m_decode_queue
    /\ UNCHANGED <<tasks, m_input_queue, nzero, mpc, mtask, try_count, fwd_count,
                   scan_count, next_decode_complete_event_id, signaled, scores,
                   m_terminate, m_terminate_decode, config, bufset, ctl, restarts,
                   bench, inter_caller_mutex, callers, pairing_vars>>

\* A waiting thread takes the next chunk of the task at the back of the queue.
DecodeClaim(s) ==
    /\ Alive
    /\ s.pc = "wait"
    /\ m_decode_queue /= <<>>
    /\ LET t == Back(m_decode_queue)
           chunk_idx == tasks[t].decode_chunks_started
       IN  /\ m_decode_threads' =
                  Moved(s, [pc |-> "decode", task |-> t, chunk_idx |-> chunk_idx])
           /\ tasks' = [tasks EXCEPT ![t].decode_chunks_started = @ + 1]
           /\ m_decode_queue' = IF IsLastChunk(chunk_idx, tasks[t].num_chunks)
                                THEN PopBack(m_decode_queue)
                                ELSE m_decode_queue
    /\ UNCHANGED <<m_input_queue, nzero, mpc, mtask, try_count, fwd_count, scan_count,
                   next_decode_complete_event_id, signaled, scores, m_terminate,
                   m_terminate_decode, config, bufset,
                   ctl, restarts, bench,
                   inter_caller_mutex, callers, pairing_vars>>

\* Variant of OutBufIdx that rounds the quotient up.
OutBufIdxRoundedUp(chunk_idx, out_batch_size) ==
    (chunk_idx + out_batch_size - 1) \div out_batch_size

\* The buffer of the split that holds the chunk, and the chunk's place in it.
OutBufIdx(chunk_idx, out_batch_size) == chunk_idx \div out_batch_size
BufChunkIdx(chunk_idx, out_batch_size) == chunk_idx % out_batch_size

\* A thread past beam_search_decode, with the locals it read the buffers by.
Sliced(s, out_batch_size) ==
    [pc |-> "finish", task |-> s.task, chunk_idx |-> s.chunk_idx,
     out_buf_idx |-> OutBufIdx(s.chunk_idx, out_batch_size),
     buf_chunk_idx |-> BufChunkIdx(s.chunk_idx, out_batch_size)]

\* beam_search_decode reads the chunk's slices of the buffers; the result is
\* stored in the task's output slot.
DecodeChunk(s) ==
    /\ Alive
    /\ s.pc = "decode"
    /\ tasks' = [tasks EXCEPT ![s.task].out_chunks[s.chunk_idx] = Append(@, scores)]
    /\ m_decode_threads' = Moved(s, Sliced(s, bufset.m_out_batch_size))
    /\ UNCHANGED <<m_input_queue, m_decode_queue, nzero, mpc, mtask, try_count,
                   fwd_count, scan_count, next_decode_complete_event_id, signaled,
                   scores, m_terminate, m_terminate_decode, config, bufset,
                   ctl, restarts, bench,
                   inter_caller_mutex, callers, pairing_vars>>

\* ++decode_chunks_finished with task->mut held.
DecodeFinish(s) ==
    /\ Alive
    /\ s.pc = "finish"
    /\ tasks' = [tasks EXCEPT ![s.task].decode_chunks_finished = @ + 1]
    /\ m_decode_threads' =
           IF IsDone(tasks[s.task].decode_chunks_finished + 1, tasks[s.task].num_chunks)
           THEN Moved(s, [s EXCEPT !.pc = "signal"])
           ELSE Moved(s, IdleThread)
    /\ UNCHANGED <<m_input_queue, m_decode_queue, nzero, mpc, mtask, try_count,
                   fwd_count, scan_count, next_decode_complete_event_id, signaled,
                   scores, m_terminate, m_terminate_decode, config, bufset,
                   ctl, restarts, bench,
                   inter_caller_mutex, callers, pairing_vars>>

\* Variant of DecodeSignal that goes on to the notification without
\* signaling the event.
DecodeSignalSkipped(s) ==
    /\ Alive
    /\ s.pc = "signal"
    /\ m_decode_threads' = Moved(s, [s EXCEPT !.pc = "notify"])
    /\ UNCHANGED <<tasks, m_input_queue, m_decode_queue, nzero, mpc, mtask, try_count,
                   fwd_count, scan_count, next_decode_complete_event_id, signaled,
                   scores, m_terminate, m_terminate_decode, config, bufset, ctl,
                   restarts, bench, inter_caller_mutex, callers, pairing_vars>>

\* m_decode_complete_event->setSignaledValue(task->decode_complete_event_id)
DecodeSignal(s) ==
    /\ Alive
    /\ s.pc = "signal"
    /\ signaled' = tasks[s.task].decode_complete_event_id
    /\ m_decode_threads' = Moved(s, [s EXCEPT !.pc = "notify"])
    /\ UNCHANGED <<tasks, m_input_queue, m_decode_queue, nzero, mpc, mtask, try_count,
                   fwd_count, scan_count, next_decode_complete_event_id, scores,
                   m_terminate, m_terminate_decode, config, bufset,
                   ctl, restarts, bench,
                   inter_caller_mutex, callers, pairing_vars>>

\* task->cv.notify_one(): wakes the client if it is blocked on the task.
DecodeNotify(s) ==
    /\ Alive
    /\ s.pc = "notify"
    /\ tasks' = [tasks EXCEPT ![s.task].client =
                     IF @ = "waiting" THEN "check" ELSE @]
    /\ m_decode_threads' = Moved(s, IdleThread)
    /\ UNCHANGED <<m_input_queue, m_decode_queue, nzero, mpc, mtask, try_count,
                   fwd_count, scan_count, next_decode_complete_event_id, signaled,
                   scores, m_terminate, m_terminate_decode, config, bufset,
                   ctl, restarts, bench,
                   inter_caller_mutex, callers, pairing_vars>>

\* ------------------------------------------------------- specifications
Threads == BagToSet(m_decode_threads)

Next ==
    \/ \E n \in 0..MaxChunks : CallChunks(n)
    \/ \E t \in DOMAIN tasks : ClientCheck(t)
    \/ \E t \in DOMAIN tasks : SpuriousWake(t)
    \/ MetalDequeue
    \/ ForwardFail
    \/ ForwardOk
    \/ GpuBegin
    \/ ScanOk
    \/ ScanFail
    \/ MetalHandoff
    \/ \E s \in Threads : DecodeClaim(s)
    \/ \E s \in Threads : DecodeChunk(s)
    \/ \E s \in Threads : DecodeFinish(s)
    \/ \E s \in Threads : DecodeSignal(s)
    \/ \E s \in Threads : DecodeNotify(s)

Spec == Init /\ [][Next]_vars

\* set_chunk_batch_size on its own, in the constructor before any thread is
\* started: the arguments are drawn from Configs and the function is applied
\* to them.
SplitInit ==
    /\ MembersInit
    /\ mpc = "unstarted"
    /\ m_decode_threads = EmptyBag
    /\ config \in Configs
    /\ bufset = Unconfigured
    /\ ctl = "configure"
    /\ restarts = 0
    /\ OneCaller
    /\ NoPairingNode
    /\ bench = NoBench

SetChunkBatchSize ==
    /\ bufset = Unconfigured
    /\ bufset' = SetChunkBatchSizeResult(config)
    /\ UNCHANGED <<tasks, m_input_queue, m_decode_queue, nzero, mpc, mtask, try_count,
                   fwd_count, scan_count, next_decode_complete_event_id, signaled,
                   scores, m_decode_threads, m_terminate, m_terminate_decode, config,
                   ctl, restarts, bench,
                   inter_caller_mutex, callers, pairing_vars>>

SplitNext == SetChunkBatchSize

SplitSpec == SplitInit /\ [][SplitNext]_vars

\* The scheduler with the fairness its threads have: the compute thread, the
\* accelerator, every decode thread and every blocked client keep running.
\* Spurious wake-ups and further calls are not required to happen.
ClaimedStates ==
    [pc : {"decode"}, task : 1..MaxCalls, chunk_idx : 0..(MaxChunks - 1)]

ThreadStates ==
    {IdleThread} \cup ClaimedStates
    \cup {[Sliced(s, SetChunkBatchSizeResult(RunConfig).m_out_batch_size)
               EXCEPT !.pc = p] :
              s \in ClaimedStates, p \in {"finish", "signal", "notify"}}

MetalStep ==
    \/ MetalDequeue
    \/ ForwardFail
    \/ ForwardOk
    \/ GpuBegin
    \/ ScanOk
    \/ ScanFail
    \/ MetalHandoff

DecodeStep(s) ==
    /\ s \in Threads
    /\ \/ DecodeClaim(s)
       \/ DecodeChunk(s)
       \/ DecodeFinish(s)
       \/ DecodeSignal(s)
       \/ DecodeNotify(s)

ClientStep(t) == t \in DOMAIN tasks /\ ClientCheck(t)

LiveSpec ==
    /\ Init
    /\ [][Next]_vars
    /\ WF_vars(MetalStep)
    /\ \A s \in ThreadStates : WF_vars(DecodeStep(s))
    /\ \A t \in 1..MaxCalls : WF_vars(ClientStep(t))

\* ------------------------------------------------ benchmark_batch_sizes
\* utils::pad_to(a, b): a rounded up to a multiple of b.
PadTo(a, b) == ((a + b - 1) \div b) * b

\* std::clamp
Clamp(v, lo, hi) == IF v < lo THEN lo ELSE IF hi < v THEN hi ELSE v

\* std::min
Min(a, b) == IF b < a THEN b ELSE a

\* Integer division of C++: the quotient is truncated towards zero.
TruncDiv(a, b) == IF a >= 0 THEN a \div b ELSE -((-a) \div b)

\* physical_memory * memory_limit_fraction, the fraction in hundredths.
UsableMemory(physical_memory, memory_limit_pct) ==
    (physical_memory \div 100) * memory_limit_pct

DecodeBufferSizePerElem(chunk_size, stride, outsize, states) ==
    OutChunkSize(chunk_size, stride)
        * (outsize + states * SizeofInt16 + states * SizeofFloat)

\* Variant of MaxBatchSize without the clamp.
MaxBatchSizeUnclamped(quotient, core_count) == PadTo(quotient, MTL_CORE_BATCH_SIZE)

\* quotient is usable_memory / (2 * decode_buffer_size_per_elem).
MaxBatchSize(quotient, core_count) ==
    Clamp(PadTo(quotient, MTL_CORE_BATCH_SIZE), MTL_CORE_BATCH_SIZE,
          MTL_CORE_BATCH_SIZE * core_count)

MinBatchSize(max_batch_size, core_count) ==
    Min((MTL_CORE_BATCH_SIZE * core_count) \div 4, max_batch_size)

\* The size inserted by iteration i of the loop of lines 276-281.  The
\* increment is a sixteenth of a small integer, which a float holds exactly,
\* so the truncated product is the integer quotient.
TestBatchSize(i, min_batch_size, max_batch_size) ==
    PadTo(min_batch_size + (i * (max_batch_size - min_batch_size)) \div kNumSmallerSizes,
          MTL_CORE_BATCH_SIZE)

TestBatchSizes(min_batch_size, max_batch_size) ==
    {max_batch_size}
        \cup {TestBatchSize(i, min_batch_size, max_batch_size) :
                  i \in 0..(kNumSmallerSizes - 1)}

BenchmarkChunkSize(chunk_size, stride) ==
    Min(chunk_size - (chunk_size % stride), stride * 300)

UsPerBatchElement(elapsed_us, batch_size) == TruncDiv(elapsed_us, batch_size)

\* Variant of IsBetter that also replaces the best size on a tie.
IsBetterOrEqual(us_per_batch_element, best_us_per_batch_element) ==
    us_per_batch_element <= best_us_per_batch_element

IsBetter(us_per_batch_element, best_us_per_batch_element) ==
    us_per_batch_element < best_us_per_batch_element

\* A std::set<int> is iterated in ascending order.
SetMin(S) == CHOOSE x \in S : \A y \in S : x <= y

BenchChunkSizes == {4, 1999, 2000}
PhysicalMemories == {0, 104857600, 1073741824}
MemoryLimitPercents == {50, 100}
ElapsedTimes == {-100, 0, 100, 9600, 19200}

\* What the division by a zero decode_buffer_size_per_elem may leave in the
\* quotient when it does not trap.
DivByZeroQuotients == {0, 2147483600}

\* The arguments and locals of benchmark_batch_sizes as it is entered with
\* one of the given chunk sizes, on some machine.
BenchEntered(chunk_sizes) ==
    [pc : {"setup"},
     physical_memory : PhysicalMemories,
     memory_limit_pct : MemoryLimitPercents,
     core_count : 1..MaxCores,
     chunk_size : chunk_sizes,
     max_batch_size : {0},
     min_batch_size : {0},
     test_batch_sizes : {{}},
     remaining : {{}},
     tried : {<<>>},
     best_batch_size : {-1},
     best_us_per_batch_element : {LLongMax}]

\* The constructor was called with batch_size == 0 and has entered
\* benchmark_batch_sizes.
BenchInit ==
    /\ MembersInit
    /\ mpc = "unstarted"
    /\ m_decode_threads = EmptyBag
    /\ bufset = Unconfigured
    /\ ctl = "benchmark"
    /\ restarts = 0
    /\ OneCaller
    /\ NoPairingNode
    /\ bench \in BenchEntered(BenchChunkSizes)
    /\ config \in [chunk_size : {bench.chunk_size}, stride : Strides,
                   batch_size : {0}, outsize : {1024}, states : {64}]

\* Lines 240-281 with the quotient of line 258 given.
BenchCandidates(quotient) ==
    LET max_batch_size == MaxBatchSize(quotient, bench.core_count)
        min_batch_size == MinBatchSize(max_batch_size, bench.core_count)
    IN  bench' = [bench EXCEPT
                     !.pc = "loop",
                     !.max_batch_size = max_batch_size,
                     !.min_batch_size = min_batch_size,
                     !.test_batch_sizes = TestBatchSizes(min_batch_size, max_batch_size),
                     !.remaining = TestBatchSizes(min_batch_size, max_batch_size)]

\* The function up to the loop over the candidates.  Dividing by a zero
\* decode_buffer_size_per_elem is undefined: it traps or leaves some quotient.
BenchSetup ==
    /\ bench.pc = "setup"
    /\ LET usable_memory == UsableMemory(bench.physical_memory, bench.memory_limit_pct)
           decode_buffer_size_per_elem ==
               DecodeBufferSizePerElem(bench.chunk_size, config.stride,
                                       config.outsize, config.states)
       IN  IF decode_buffer_size_per_elem = 0
           THEN \/ bench' = [bench EXCEPT !.pc = "trap"]
                \/ \E quotient \in DivByZeroQuotients : BenchCandidates(quotient)
           ELSE BenchCandidates(usable_memory \div (2 * decode_buffer_size_per_elem))
    /\ UNCHANGED <<tasks, m_input_queue, m_decode_queue, nzero, mpc, mtask, try_count,
                   fwd_count, scan_count, next_decode_complete_event_id, signaled,
                   scores, m_decode_threads, m_terminate, m_terminate_decode, config,
                   bufset, ctl, restarts,
                   inter_caller_mutex, callers, pairing_vars>>

\* One iteration of the loop of lines 292-310 for the smallest candidate not
\* yet tried; elapsed_us is what the clock measured.
BenchTry(elapsed_us) ==
    /\ bench.pc = "loop"
    /\ bench.remaining /= {}
    /\ LET batch_size == SetMin(bench.remaining)
           us_per_batch_element == UsPerBatchElement(elapsed_us, batch_size)
           better == IsBetter(us_per_batch_element, bench.best_us_per_batch_element)
       IN  /\ config' = [config EXCEPT
                            !.chunk_size = BenchmarkChunkSize(bench.chunk_size,
                                                              config.stride),
                            !.batch_size = batch_size]
           /\ bufset' = SetChunkBatchSizeResult(config')
           /\ bench' = [bench EXCEPT
                           !.remaining = @ \ {batch_size},
                           !.tried = Append(@, <<batch_size, elapsed_us>>),
                           !.best_us_per_batch_element =
                               IF better THEN us_per_batch_element ELSE @,
                           !.best_batch_size = IF better THEN batch_size ELSE @]
    /\ UNCHANGED <<tasks, m_input_queue, m_decode_queue, nzero, mpc, mtask, try_count,
                   fwd_count, scan_count, next_decode_complete_event_id, signaled,
                   scores, m_decode_threads, m_terminate, m_terminate_decode,
                   ctl, restarts,
                   inter_caller_mutex, callers, pairing_vars>>

\* The loop is over: the two assertions are evaluated and best_batch_size is
\* returned to the constructor.
BenchReturn ==
    /\ bench.pc = "loop"
    /\ bench.remaining = {}
    /\ bench' = [bench EXCEPT !.pc = "returned"]
    /\ ctl' = "configure"
    /\ UNCHANGED <<tasks, m_input_queue, m_decode_queue, nzero, mpc, mtask, try_count,
                   fwd_count, scan_count, next_decode_complete_event_id, signaled,
                   scores, m_decode_threads, m_terminate, m_terminate_decode, config,
                   bufset, restarts,
                   inter_caller_mutex, callers, pairing_vars>>

\* The assertions of lines 311 and 312.
AssertBestAtLeastCore == bench.best_batch_size >= MTL_CORE_BATCH_SIZE
AssertBestMultiple == bench.best_batch_size % MTL_CORE_BATCH_SIZE = 0

\* ------------------------------------ constructor, terminate and restart
\* Variant of CtorSteps that starts the threads before the buffers are set up.
CtorStepsStartFirst == <<"start", "configure">>

\* The last two statements of the constructor, in order: set_chunk_batch_size
\* and start_threads.
CtorSteps == <<"configure", "start">>

CtorAfter(step) == IF step = CtorSteps[1] THEN CtorSteps[2] ELSE "idle"

Constructed == ctl \notin {"select", "benchmark", "configure", "start"}

\* Variant of SelectedBatchSize that passes the batch size given as it is.
SelectedBatchSizeUnpadded ==
    IF bench.pc = "returned" THEN bench.best_batch_size ELSE config.batch_size

\* selected_batch_size: the benchmark's result when the constructor was
\* given no batch size, else the batch size given, padded.
SelectedBatchSize ==
    IF bench.pc = "returned"
    THEN bench.best_batch_size
    ELSE PadTo(config.batch_size, MTL_CORE_BATCH_SIZE)

\* Variant of CtorConfigure that goes on to start_threads without calling
\* set_chunk_batch_size.
CtorConfigureSkipped ==
    /\ ctl = "configure"
    /\ ctl' = CtorAfter("configure")
    /\ UNCHANGED <<tasks, m_input_queue, m_decode_queue, nzero, mpc, mtask, try_count,
                   fwd_count, scan_count, next_decode_complete_event_id, signaled,
                   scores, m_decode_threads, m_terminate, m_terminate_decode, config,
                   bufset, restarts, bench, inter_caller_mutex, callers, pairing_vars>>

\* set_chunk_batch_size(model_config, state_dict, chunk_size, selected_batch_size)
CtorConfigure ==
    /\ ctl = "configure"
    /\ config' = [config EXCEPT
                     !.chunk_size = IF bench.pc = "returned" THEN bench.chunk_size ELSE @,
                     !.batch_size = SelectedBatchSize]
    /\ bufset' = SetChunkBatchSizeResult(config')
    /\ ctl' = CtorAfter("configure")
    /\ UNCHANGED <<tasks, m_input_queue, m_decode_queue, nzero, mpc, mtask, try_count,
                   fwd_count, scan_count, next_decode_complete_event_id, signaled,
                   scores, m_decode_threads, m_terminate, m_terminate_decode,
                   restarts, bench,
                   inter_caller_mutex, callers, pairing_vars>>

\* The conditional of lines 81-84: batch_size == 0 selects the benchmark,
\* any other value is padded and passed to set_chunk_batch_size.
CtorSelect ==
    /\ ctl = "select"
    /\ IF config.batch_size = 0
       THEN /\ ctl' = "benchmark"
            /\ bench' \in BenchEntered({config.chunk_size})
       ELSE /\ ctl' = "configure"
            /\ UNCHANGED bench
    /\ UNCHANGED <<tasks, m_input_queue, m_decode_queue, nzero, mpc, mtask, try_count,
                   fwd_count, scan_count, next_decode_complete_event_id, signaled,
                   scores, m_decode_threads, m_terminate, m_terminate_decode, config,
                   bufset, restarts,
                   inter_caller_mutex, callers, pairing_vars>>

Max(a, b) == IF a < b THEN b ELSE a

\* get_apple_cpu_perf_core_count() of the machine modelled.
PerfCoreCount == NumDecodeThreads + 1

\* start_threads: a new compute thread, whose next_decode_complete_event_id
\* is a local of metal_thread_fn, and num_decode_threads new decode threads
\* appended to m_decode_threads.
StartThreads ==
    /\ mpc' = "wait"
    /\ next_decode_complete_event_id' = 1
    /\ m_decode_threads' =
           m_decode_threads (+) [s \in {IdleThread} |-> Max(1, PerfCoreCount - 1)]

CtorStart ==
    /\ ctl = "start"
    /\ StartThreads
    /\ ctl' = CtorAfter("start")
    /\ UNCHANGED <<tasks, m_input_queue, m_decode_queue, nzero, mtask, try_count,
                   fwd_count, scan_count, signaled, scores, m_terminate,
                   m_terminate_decode, config, bufset, restarts, bench,
                   inter_caller_mutex, callers, pairing_vars>>

\* A decode thread that has returned from decode_thread_fn.
ExitedThread == [pc |-> "exited", task |-> 0, chunk_idx |-> 0]

\* Variant of ShouldExitMetal that does not look at the queue.
ShouldExitMetalAnyQueue == m_terminate

\* The test of line 367.
ShouldExitMetal == m_input_queue = <<>> /\ m_terminate

\* The compute thread wakes up with nothing queued and m_terminate set: it
\* sets m_terminate_decode and returns.
MetalExit ==
    /\ mpc = "wait"
    /\ ShouldExitMetal
    /\ m_terminate_decode' = TRUE
    /\ mpc' = "exited"
    /\ UNCHANGED <<tasks, m_input_queue, m_decode_queue, nzero, mtask, try_count,
                   fwd_count, scan_count, next_decode_complete_event_id, signaled,
                   scores, m_decode_threads, m_terminate, config, bufset,
                   ctl, restarts, bench,
                   inter_caller_mutex, callers, pairing_vars>>

\* Variant of ShouldExitDecode that does not look at the queue.
ShouldExitDecodeAnyQueue == m_terminate_decode

\* The test of line 429.
ShouldExitDecode == m_decode_queue = <<>> /\ m_terminate_decode

DecodeExit(s) ==
    /\ Alive
    /\ s.pc = "wait"
    /\ ShouldExitDecode
    /\ m_decode_threads' = Moved(s, ExitedThread)
    /\ UNCHANGED <<tasks, m_input_queue, m_decode_queue, nzero, mpc, mtask, try_count,
                   fwd_count, scan_count, next_decode_complete_event_id, signaled,
                   scores, m_terminate, m_terminate_decode, config, bufset,
                   ctl, restarts, bench,
                   inter_caller_mutex, callers, pairing_vars>>

\* terminate() up to the join of the compute thread.
TerminateCall ==
    /\ Alive
    /\ ctl = "idle"
    /\ m_terminate' = TRUE
    /\ ctl' = "join_metal"
    /\ UNCHANGED <<tasks, m_input_queue, m_decode_queue, nzero, mpc, mtask, try_count,
                   fwd_count, scan_count, next_decode_complete_event_id, signaled,
                   scores, m_decode_threads, m_terminate_decode, config, bufset,
                   restarts, bench,
                   inter_caller_mutex, callers, pairing_vars>>

\* m_metal_thread->join() returns, if there is a thread to join, and
\* m_metal_thread is reset.
TerminateJoinMetal ==
    /\ Alive
    /\ ctl = "join_metal"
    /\ mpc \in {"exited", "unstarted"}
    /\ mpc' = "unstarted"
    /\ ctl' = "join_decode"
    /\ UNCHANGED <<tasks, m_input_queue, m_decode_queue, nzero, mtask, try_count,
                   fwd_count, scan_count, next_decode_complete_event_id, signaled,
                   scores, m_decode_threads, m_terminate, m_terminate_decode, config,
                   bufset, restarts, bench,
                   inter_caller_mutex, callers, pairing_vars>>

\* Every decode thread is joined, m_decode_threads is cleared and terminate()
\* returns.
TerminateJoinDecode ==
    /\ Alive
    /\ ctl = "join_decode"
    /\ \A s \in BagToSet(m_decode_threads) : s.pc = "exited"
    /\ m_decode_threads' = EmptyBag
    /\ ctl' = "idle"
    /\ UNCHANGED <<tasks, m_input_queue, m_decode_queue, nzero, mpc, mtask, try_count,
                   fwd_count, scan_count, next_decode_complete_event_id, signaled,
                   scores, m_terminate, m_terminate_decode, config, bufset,
                   restarts, bench,
                   inter_caller_mutex, callers, pairing_vars>>

\* Variant of ShouldRestart that restarts whatever the flag says.
ShouldRestartAlways == TRUE

\* The test of line 141.
ShouldRestart == m_terminate

\* restart(), called when no terminate() is in progress.
Restart ==
    /\ Alive
    /\ ctl = "idle"
    /\ restarts < MaxRestarts
    /\ restarts' = restarts + 1
    /\ IF ShouldRestart
       THEN /\ m_terminate' = FALSE
            /\ m_terminate_decode' = FALSE
            /\ StartThreads
       ELSE UNCHANGED <<mpc, next_decode_complete_event_id, m_decode_threads,
                        m_terminate, m_terminate_decode>>
    /\ UNCHANGED <<tasks, m_input_queue, m_decode_queue, nzero, mtask, try_count,
                   fwd_count, scan_count, signaled, scores, config, bufset, ctl,
                   bench,
                   inter_caller_mutex, callers, pairing_vars>>

\* The constructor was called with a batch size and is about to run its last
\* two statements.
LifeInit ==
    /\ MembersInit
    /\ mpc = "unstarted"
    /\ m_decode_threads = EmptyBag
    /\ config = RunConfig
    /\ bufset = Unconfigured
    /\ ctl = CtorSteps[1]
    /\ restarts = 0
    /\ OneCaller
    /\ NoPairingNode
    /\ bench = NoBench

\* The whole life of a caller: construction, calls, terminate() and restart().
LifeNext ==
    \/ CtorConfigure
    \/ CtorStart
    \/ \E n \in 0..MaxChunks : Constructed /\ CallChunks(n)
    \/ \E t \in DOMAIN tasks : ClientCheck(t)
    \/ \E t \in DOMAIN tasks : SpuriousWake(t)
    \/ MetalDequeue
    \/ ForwardFail
    \/ ForwardOk
    \/ GpuBegin
    \/ ScanOk
    \/ ScanFail
    \/ MetalHandoff
    \/ MetalExit
    \/ \E s \in Threads : DecodeClaim(s)
    \/ \E s \in Threads : DecodeChunk(s)
    \/ \E s \in Threads : DecodeFinish(s)
    \/ \E s \in Threads : DecodeSignal(s)
    \/ \E s \in Threads : DecodeNotify(s)
    \/ \E s \in Threads : DecodeExit(s)
    \/ TerminateCall
    \/ TerminateJoinMetal
    \/ TerminateJoinDecode
    \/ Restart

LifeSpec == LifeInit /\ [][LifeNext]_vars

\* The caller after it has served one call of one chunk, has been terminated
\* and has been restarted: the completion event still holds the value that
\* task signaled, and the new compute thread numbers its tasks from 1.
RestartedInit ==
    /\ tasks = <<[NNTask(1) EXCEPT !.decode_chunks_started = 1,
                                   !.decode_chunks_finished = 1,
                                   !.decode_complete_event_id = 1,
                                   !.out_chunks = [i \in {0} |-> <<1>>],
                                   !.submitted = TRUE,
                                   !.client = "returned"]>>
    /\ m_input_queue = <<>>
    /\ m_decode_queue = <<>>
    /\ nzero = 0
    /\ mtask = 0
    /\ try_count = 0
    /\ fwd_count = 0
    /\ scan_count = 0
    /\ next_decode_complete_event_id = 1
    /\ signaled = 1
    /\ scores = 1
    /\ m_terminate = FALSE
    /\ m_terminate_decode = FALSE
    /\ ThreadsStarted
    /\ config = RunConfig
    /\ bufset = SetChunkBatchSizeResult(RunConfig)
    /\ ctl = "idle"
    /\ restarts = 1
    /\ OneCaller
    /\ NoPairingNode
    /\ bench = NoBench

\* The scheduler from RestartedInit on, with room for three more calls: the
\* first of up to MaxChunks chunks, the others of one chunk.
RestartedNext ==
    \/ \E n \in 1..MaxChunks :
           (n = 1 \/ Len(tasks) = 1) /\ CallChunksWithin(n, MaxCalls + 2)
    \/ \E t \in DOMAIN tasks : ClientCheck(t)
    \/ \E t \in DOMAIN tasks : SpuriousWake(t)
    \/ MetalDequeue
    \/ ForwardFail
    \/ ForwardOk
    \/ GpuBegin
    \/ ScanOk
    \/ ScanFail
    \/ MetalHandoff
    \/ \E s \in Threads : DecodeClaim(s)
    \/ \E s \in Threads : DecodeChunk(s)
    \/ \E s \in Threads : DecodeFinish(s)
    \/ \E s \in Threads : DecodeSignal(s)
    \/ \E s \in Threads : DecodeNotify(s)

RestartedSpec == RestartedInit /\ [][RestartedNext]_vars

\* The caller after it has served one call of one chunk and has been
\* terminated: no thread is left, m_terminate is set, and the completion event
\* holds the value that task signaled.
TerminatedInit ==
    /\ tasks = <<[NNTask(1) EXCEPT !.decode_chunks_started = 1,
                                   !.decode_chunks_finished = 1,
                                   !.decode_complete_event_id = 1,
                                   !.out_chunks = [i \in {0} |-> <<1>>],
                                   !.submitted = TRUE,
                                   !.client = "returned"]>>
    /\ m_input_queue = <<>>
    /\ m_decode_queue = <<>>
    /\ nzero = 0
    /\ mpc = "unstarted"
    /\ mtask = 0
    /\ try_count = 0
    /\ fwd_count = 0
    /\ scan_count = 0
    /\ next_decode_complete_event_id = 2
    /\ signaled = 1
    /\ scores = 1
    /\ m_decode_threads = EmptyBag
    /\ m_terminate = TRUE
    /\ m_terminate_decode = TRUE
    /\ config = RunConfig
    /\ bufset = SetChunkBatchSizeResult(RunConfig)
    /\ ctl = "idle"
    /\ restarts = 0
    /\ OneCaller
    /\ NoPairingNode
    /\ bench = NoBench

\* The caller from TerminatedInit on: up to three calls of one chunk made
\* while it is terminated, then restart() and the threads it starts.
TerminatedNext ==
    \/ \E n \in {1} : m_terminate /\ CallChunksWithin(n, MaxCalls + 2)
    \/ \E t \in DOMAIN tasks : ClientCheck(t)
    \/ \E t \in DOMAIN tasks : SpuriousWake(t)
    \/ Restart
    \/ MetalDequeue
    \/ ForwardFail
    \/ ForwardOk
    \/ GpuBegin
    \/ ScanOk
    \/ ScanFail
    \/ MetalHandoff
    \/ \E s \in Threads : DecodeClaim(s)
    \/ \E s \in Threads : DecodeChunk(s)
    \/ \E s \in Threads : DecodeFinish(s)
    \/ \E s \in Threads : DecodeSignal(s)
    \/ \E s \in Threads : DecodeNotify(s)

TerminatedSpec == TerminatedInit /\ [][TerminatedNext]_vars

\* The constructor called with batch_size == 0: the benchmark, then the last
\* two statements.
BenchNext ==
    \/ BenchSetup
    \/ \E elapsed_us \in ElapsedTimes : BenchTry(elapsed_us)
    \/ BenchReturn
    \/ CtorConfigure
    \/ CtorStart

BenchSpec == BenchInit /\ [][BenchNext]_vars

\* The whole constructor, called with a batch size drawn from
\* RequestedBatchSizes.
RequestedBatchSizes == {0, 1, 47, 48, 49, 95, 96, 100, 480, 500}

CtorInit ==
    /\ MembersInit
    /\ mpc = "unstarted"
    /\ m_decode_threads = EmptyBag
    /\ bufset = Unconfigured
    /\ ctl = "select"
    /\ restarts = 0
    /\ OneCaller
    /\ NoPairingNode
    /\ bench = NoBench
    /\ config \in [chunk_size : {2000}, stride : Strides,
                   batch_size : RequestedBatchSizes, outsize : {1024}, states : {64}]

CtorNext ==
    \/ CtorSelect
    \/ BenchSetup
    \/ \E elapsed_us \in ElapsedTimes : BenchTry(elapsed_us)
    \/ BenchReturn
    \/ CtorConfigure
    \/ CtorStart

CtorSpec == CtorInit /\ [][CtorNext]_vars

\* The decode step on its own: a decode thread has claimed chunk chunk_idx of
\* a task of num_chunks chunks, the chunks before it are decoded, and the
\* buffers are those of a configuration drawn from SliceConfigs.
SliceConfigs ==
    {cfg \in Configs :
        cfg.chunk_size \in {2000, 8000} /\ cfg.stride = 5 /\ cfg.states = 64}

\* The task after the chunks below chunk_idx are decoded and chunk_idx is
\* claimed.
ClaimedTask(num_chunks_, chunk_idx) ==
    [NNTask(num_chunks_) EXCEPT
        !.decode_chunks_started = chunk_idx + 1,
        !.decode_chunks_finished = chunk_idx,
        !.decode_complete_event_id = 1,
        !.out_chunks = [i \in 0..(num_chunks_ - 1) |->
                            IF i < chunk_idx THEN <<1>> ELSE <<>>],
        !.submitted = TRUE,
        !.client = "waiting"]

SliceInit ==
    /\ config \in SliceConfigs
    /\ bufset = SetChunkBatchSizeResult(config)
    /\ \E num_chunks_ \in {1, bufset.m_out_batch_size, bufset.m_batch_size} :
           \E chunk_idx \in 0..(num_chunks_ - 1) :
               /\ tasks = <<ClaimedTask(num_chunks_, chunk_idx)>>
               /\ m_decode_queue = IF IsLastChunk(chunk_idx, num_chunks_)
                                   THEN <<>> ELSE <<1>>
               /\ m_decode_threads =
                      SetToBag({[pc |-> "decode", task |-> 1, chunk_idx |-> chunk_idx]})
                      (+) [s \in {IdleThread} |-> NumDecodeThreads - 1]
    /\ m_input_queue = <<>>
    /\ nzero = 0
    /\ mpc = "wait"
    /\ mtask = 0
    /\ try_count = 0
    /\ fwd_count = 0
    /\ scan_count = 0
    /\ next_decode_complete_event_id = 2
    /\ signaled = 0
    /\ scores = 1
    /\ m_terminate = FALSE
    /\ m_terminate_decode = FALSE
    /\ ctl = "idle"
    /\ restarts = 0
    /\ OneCaller
    /\ NoPairingNode
    /\ bench = NoBench

SliceNext == \E s \in Threads : DecodeChunk(s)

SliceSpec == SliceInit /\ [][SliceNext]_vars

\* The sizing arithmetic of benchmark_batch_sizes and set_chunk_batch_size on
\* their own: the constructor called with batch_size == 0 on machines of up to
\* MaxSizingCores cores and with a handful of chunk sizes, every candidate
\* taking the same time.
MaxSizingCores == 24

SizingEntered ==
    {[b EXCEPT !.core_count = c, !.chunk_size = k] :
        b \in BenchEntered({0}), c \in 1..MaxSizingCores,
        k \in {0, 4, 1000, 1999, 2000}}

SizingInit ==
    /\ MembersInit
    /\ mpc = "unstarted"
    /\ m_decode_threads = EmptyBag
    /\ bufset = Unconfigured
    /\ ctl = "benchmark"
    /\ restarts = 0
    /\ OneCaller
    /\ NoPairingNode
    /\ bench \in SizingEntered
    /\ config \in [chunk_size : {bench.chunk_size}, stride : Strides,
                   batch_size : {0}, outsize : {1024}, states : {64}]

SizingNext ==
    \/ BenchSetup
    \/ \E elapsed_us \in {9600} : BenchTry(elapsed_us)
    \/ BenchReturn
    \/ CtorConfigure
    \/ CtorStart

SizingSpec == SizingInit /\ [][SizingNext]_vars

\* ------------------------------------------- several callers in a process
\* inter_caller_mutex is a static local of metal_thread_fn: one mutex for all
\* the callers of the process. Each caller is followed through its constructor
\* and the retry loop of its compute thread; its queues and decode threads
\* play no part in the locking.
NumCallers == 2

\* Numbers of candidates the benchmark of a caller goes through.
BenchCandidateCounts == {1, 2}

NewCaller == [pc |-> "unconstructed", try_count |-> 0, remaining |-> 0]

\* An exception has left some compute thread: the process is gone.
ProcessAlive == \A c \in DOMAIN callers : callers[c].pc /= "thrown"

\* The members of the caller the other sections follow are left alone.
CallerFrame ==
    UNCHANGED <<tasks, m_input_queue, m_decode_queue, nzero, mpc, mtask, try_count,
                fwd_count, scan_count, next_decode_complete_event_id, signaled,
                scores, m_decode_threads, m_terminate, m_terminate_decode, config,
                bufset, ctl, restarts, bench, pairing_vars>>

MutexInit ==
    /\ MembersInit
    /\ mpc = "unstarted"
    /\ m_decode_threads = EmptyBag
    /\ config = RunConfig
    /\ bufset = Unconfigured
    /\ ctl = "idle"
    /\ restarts = 0
    /\ bench = NoBench
    /\ inter_caller_mutex = 0
    /\ callers = [c \in 1..NumCallers |-> NewCaller]
    /\ NoPairingNode

\* The constructor is called: with batch_size == 0 it enters
\* benchmark_batch_sizes, which has n candidates to try; otherwise it
\* configures the buffers and starts the threads.
CallerConstruct(c, batch_size, n) ==
    /\ ProcessAlive
    /\ callers[c].pc = "unconstructed"
    /\ callers' = [callers EXCEPT ![c] =
                       IF batch_size = 0
                       THEN [@ EXCEPT !.pc = "benchmark", !.remaining = n]
                       ELSE [@ EXCEPT !.pc = "wait"]]
    /\ UNCHANGED inter_caller_mutex
    /\ CallerFrame

\* The benchmark loop submits the forward pass of the next candidate. The loop
\* runs on the constructing thread and takes no lock.
CallerBenchForward(c) ==
    /\ ProcessAlive
    /\ callers[c].pc = "benchmark"
    /\ callers[c].remaining > 0
    /\ callers' = [callers EXCEPT ![c].pc = "bench_forward"]
    /\ UNCHANGED inter_caller_mutex
    /\ CallerFrame

\* run_scan_kernels(cb, 0) of the benchmark loop.
CallerBenchScan(c) ==
    /\ ProcessAlive
    /\ callers[c].pc = "bench_forward"
    /\ callers' = [callers EXCEPT ![c].pc = "bench_scan"]
    /\ UNCHANGED inter_caller_mutex
    /\ CallerFrame

\* The candidate's command buffer has completed and its time is taken.
CallerBenchTimed(c) ==
    /\ ProcessAlive
    /\ callers[c].pc = "bench_scan"
    /\ callers' = [callers EXCEPT ![c].pc = "benchmark", ![c].remaining = @ - 1]
    /\ UNCHANGED inter_caller_mutex
    /\ CallerFrame

\* benchmark_batch_sizes returns; the constructor configures the buffers and
\* starts the threads.
CallerBenchReturn(c) ==
    /\ ProcessAlive
    /\ callers[c].pc = "benchmark"
    /\ callers[c].remaining = 0
    /\ callers' = [callers EXCEPT ![c].pc = "wait"]
    /\ UNCHANGED inter_caller_mutex
    /\ CallerFrame

\* The compute thread takes a task from its input queue and enters the retry
\* loop.
CallerDequeue(c) ==
    /\ ProcessAlive
    /\ callers[c].pc = "wait"
    /\ callers' = [callers EXCEPT ![c].pc = "lock", ![c].try_count = 0]
    /\ UNCHANGED inter_caller_mutex
    /\ CallerFrame

\* std::lock_guard<std::mutex> lock(inter_caller_mutex) at the top of the
\* loop body.
CallerLock(c) ==
    /\ ProcessAlive
    /\ callers[c].pc = "lock"
    /\ inter_caller_mutex = 0
    /\ inter_caller_mutex' = c
    /\ callers' = [callers EXCEPT ![c].pc = "forward"]
    /\ CallerFrame

\* The position after a failed attempt: the guard is destroyed at the end of
\* the loop body, then the loop condition is evaluated.
CallerAfterFailedTry(tc) == IF LoopContinues(tc) THEN "lock" ELSE AfterLoop(FALSE)

\* forward_async returns nullptr: sleep with the mutex held, then continue.
CallerForwardFail(c) ==
    /\ ProcessAlive
    /\ callers[c].pc = "forward"
    /\ inter_caller_mutex' = 0
    /\ callers' = [callers EXCEPT ![c].try_count = @ + 1,
                                  ![c].pc = CallerAfterFailedTry(callers[c].try_count + 1)]
    /\ CallerFrame

CallerForwardOk(c) ==
    /\ ProcessAlive
    /\ callers[c].pc = "forward"
    /\ callers' = [callers EXCEPT ![c].pc = "scan"]
    /\ UNCHANGED inter_caller_mutex
    /\ CallerFrame

\* run_scan_kernels returns true: break, the guard is destroyed, and the task
\* is passed to the decode threads.
CallerScanOk(c) ==
    /\ ProcessAlive
    /\ callers[c].pc = "scan"
    /\ inter_caller_mutex' = 0
    /\ callers' = [callers EXCEPT ![c].pc = "wait", ![c].try_count = 0]
    /\ CallerFrame

\* run_scan_kernels returns false: sleep with the mutex held, then the end of
\* the loop body.
CallerScanFail(c) ==
    /\ ProcessAlive
    /\ callers[c].pc = "scan"
    /\ inter_caller_mutex' = 0
    /\ callers' = [callers EXCEPT ![c].try_count = @ + 1,
                                  ![c].pc = CallerAfterFailedTry(callers[c].try_count + 1)]
    /\ CallerFrame

MutexNext ==
    \/ \E c \in DOMAIN callers, batch_size \in {0, MTL_CORE_BATCH_SIZE},
          n \in BenchCandidateCounts : CallerConstruct(c, batch_size, n)
    \/ \E c \in DOMAIN callers : CallerBenchForward(c)
    \/ \E c \in DOMAIN callers : CallerBenchScan(c)
    \/ \E c \in DOMAIN callers : CallerBenchTimed(c)
    \/ \E c \in DOMAIN callers : CallerBenchReturn(c)
    \/ \E c \in DOMAIN callers : CallerDequeue(c)
    \/ \E c \in DOMAIN callers : CallerLock(c)
    \/ \E c \in DOMAIN callers : CallerForwardFail(c)
    \/ \E c \in DOMAIN callers : CallerForwardOk(c)
    \/ \E c \in DOMAIN callers : CallerScanOk(c)
    \/ \E c \in DOMAIN callers : CallerScanFail(c)

MutexSpec == MutexInit /\ [][MutexNext]_vars

\* ------------------------------------------------------------ PairingNode
\* src/dorado/read_pipeline/PairingNode.cpp in its pair-generating mode: the
\* worker threads (pair_generating_worker_thread) pop messages from the work
\* queue and keep, per client, a cache of the latest reads of each pore.
\* Every statement between a lock of m_pairing_mtx and its release is one
\* step.
NumWorkers == 2
NumClients == 2
MaxMessages == 3

ByChannelMaxNumKeys == 10
ByTimeMaxNumReads == 10
\* std::numeric_limits<size_t>::max(), at the width of the model's integers:
\* above the size of every collection.
SizeMax == 2147483647

\* Variant of CompareReadsByTime that orders the later read first.
CompareReadsByTimeReversed(read1, read2) ==
    read2.start_time_ms < read1.start_time_ms

\* Variant of ExceedsMaxNumKeys that never finds the cache full.
ExceedsMaxNumKeysNever(size, max_num_keys) == FALSE

\* Variant of Erased that leaves the client's cache in place.
ErasedNothing(caches, client_id) == caches

\* The constructor's switch over read_order.
MaxNumKeys(read_order) ==
    IF read_order = "BY_CHANNEL" THEN ByChannelMaxNumKeys ELSE SizeMax

MaxNumReads(read_order) ==
    IF read_order = "BY_TIME" THEN ByTimeMaxNumReads ELSE SizeMax

\* The messages of the pipeline.
ReadMessage(read) == [kind |-> "read", read |-> read]
ReadPair(read_1, read_2) == [kind |-> "pair", read_1 |-> read_1, read_2 |-> read_2]

UniquePoreIdentifierKey(read) ==
    <<read.channel_number, read.mux, read.run_id, read.flowcell_id>>

compare_reads_by_time(read1, read2) == read1.start_time_ms < read2.start_time_ms

\* std::lower_bound over cached_read_list[first .. first + count - 1]: the
\* binary search of the standard library, by halving the range. The position
\* Len + 1 stands for end().
RECURSIVE LowerBoundIn(_, _, _, _)
LowerBoundIn(cached_read_list, read, first, count) ==
    IF count = 0
    THEN first
    ELSE LET step == count \div 2
             mid == first + step
         IN IF compare_reads_by_time(cached_read_list[mid], read)
            THEN LowerBoundIn(cached_read_list, read, mid + 1, count - step - 1)
            ELSE LowerBoundIn(cached_read_list, read, first, step)

\* The loop that pops the front of the list while it is over the limit:
\* the list left and the reads sent to the sink, in order.
RECURSIVE Trimmed(_, _, _)
Trimmed(cached_read_list, max_num_reads, sent) ==
    IF Len(cached_read_list) > max_num_reads
    THEN Trimmed(Tail(cached_read_list), max_num_reads,
                 Append(sent, Head(cached_read_list)))
    ELSE [cached_read_list |-> cached_read_list, sent |-> sent]

ExceedsMaxNumKeys(size, max_num_keys) == size > max_num_keys

\* m_read_caches[client_id]: operator[] constructs the cache when absent.
ReadCacheOf(caches, client_id) ==
    IF client_id \in DOMAIN caches
    THEN caches[client_id]
    ELSE [channel_mux_read_map |-> [key \in {} |-> <<>>],
          working_channel_mux_keys |-> <<>>]

WithReadCache(caches, client_id, read_cache) ==
    [c \in DOMAIN caches \cup {client_id} |->
        IF c = client_id THEN read_cache ELSE caches[c]]

\* m_read_caches.erase(client_id)
Erased(caches, client_id) ==
    [c \in DOMAIN caches \ {client_id} |-> caches[c]]

\* The statements of the worker between the lock of m_pairing_mtx and its
\* release, for a read: the caches left, the reads sent to the sink and the
\* neighbours of the read in its list (a sequence of length 0 stands for a
\* null pointer).
CacheRead(caches, read, max_num_keys, max_num_reads) ==
    LET read_cache == ReadCacheOf(caches, read.client_id)
        key == UniquePoreIdentifierKey(read)
        map == read_cache.channel_mux_read_map
        keys == read_cache.working_channel_mux_keys
    IN IF key \notin DOMAIN map
       THEN LET pushed == Append(keys, key)
                inserted == [k \in DOMAIN map \cup {key} |->
                                IF k = key THEN <<read>> ELSE map[k]]
            IN IF ExceedsMaxNumKeys(Len(pushed), max_num_keys)
               THEN LET oldest_key == Head(pushed)
                    IN [caches |-> WithReadCache(caches, read.client_id,
                            [channel_mux_read_map |->
                                 [k \in DOMAIN inserted \ {oldest_key} |-> inserted[k]],
                             working_channel_mux_keys |-> Tail(pushed)]),
                        sent |-> inserted[oldest_key],
                        paired |-> FALSE,
                        later_read |-> <<>>,
                        earlier_read |-> <<>>]
               ELSE [caches |-> WithReadCache(caches, read.client_id,
                            [channel_mux_read_map |-> inserted,
                             working_channel_mux_keys |-> pushed]),
                     sent |-> <<>>,
                     paired |-> FALSE,
                     later_read |-> <<>>,
                     earlier_read |-> <<>>]
       ELSE LET cached_read_list == map[key]
                later_read_iter == LowerBoundIn(cached_read_list, read, 1, Len(cached_read_list))
                inserted == SubSeq(cached_read_list, 1, later_read_iter - 1)
                                \o <<read>>
                                \o SubSeq(cached_read_list, later_read_iter,
                                          Len(cached_read_list))
                trimmed == Trimmed(inserted, max_num_reads, <<>>)
            IN [caches |-> WithReadCache(caches, read.client_id,
                        [read_cache EXCEPT !.channel_mux_read_map[key] =
                                               trimmed.cached_read_list]),
                sent |-> trimmed.sent,
                paired |-> TRUE,
                later_read |-> IF later_read_iter <= Len(cached_read_list)
                               THEN <<cached_read_list[later_read_iter]>>
                               ELSE <<>>,
                earlier_read |-> IF later_read_iter > 1
                                 THEN <<cached_read_list[later_read_iter - 1]>>
                                 ELSE <<>>]

\* send_message_to_sink for each read of a list.
RECURSIVE SentReads(_)
SentReads(reads_list) ==
    IF reads_list = <<>>
    THEN EmptyBag
    ELSE SetToBag({ReadMessage(Head(reads_list))}) (+) SentReads(Tail(reads_list))

\* send_message_to_sink for each read of each list of a map.
RECURSIVE SentMap(_, _)
SentMap(channel_mux_read_map, keys) ==
    IF keys = {}
    THEN EmptyBag
    ELSE LET key == CHOOSE k \in keys : TRUE
         IN SentReads(channel_mux_read_map[key])
                (+) SentMap(channel_mux_read_map, keys \ {key})

RECURSIVE SentCaches(_, _)
SentCaches(caches, clients) ==
    IF clients = {}
    THEN EmptyBag
    ELSE LET client_id == CHOOSE c \in clients : TRUE
         IN SentMap(caches[client_id].channel_mux_read_map,
                    DOMAIN caches[client_id].channel_mux_read_map)
                (+) SentCaches(caches, clients \ {client_id})

\* A worker about to call try_pop.
PoppingWorker ==
    [pc |-> "pop", message |-> [kind |-> "none"], later_read |-> <<>>, earlier_read |-> <<>>]

\* start_threads: the workers differ by their tid only, which no statement
\* modelled reads, so they are kept as a bag of positions and locals.
StartedWorkers == [s \in {PoppingWorker} |-> NumWorkers]

WorkerMoved(s, s2) == (m_workers (-) SetToBag({s})) (+) SetToBag({s2})

NewRead(read_id, channel, client_id, start_time_ms) ==
    [read_id |-> read_id, channel_number |-> channel, mux |-> 1, run_id |-> "run",
     flowcell_id |-> "flowcell", client_id |-> client_id,
     start_time_ms |-> start_time_ms]

\* The reads of client 1 the node has processed before the first state: one
\* read from each of as many pores as BY_CHANNEL keeps, or as many reads of
\* one pore as BY_TIME keeps.
Prefix(read_order) ==
    IF read_order = "BY_CHANNEL"
    THEN [i \in 1..ByChannelMaxNumKeys |-> NewRead(i, i, 1, i)]
    ELSE [i \in 1..ByTimeMaxNumReads |-> NewRead(i, 1, 1, i)]

\* The worker's critical section applied to the reads of a prefix in turn,
\* no pair being found: the caches and the sink it leaves.
RECURSIVE Processed(_, _, _)
Processed(prefix, read_order, state) ==
    IF prefix = <<>>
    THEN state
    ELSE LET cached == CacheRead(state.caches, Head(prefix), MaxNumKeys(read_order),
                                 MaxNumReads(read_order))
         IN Processed(Tail(prefix), read_order,
                      [caches |-> cached.caches,
                       sink |-> state.sink (+) SentReads(cached.sent)])

\* A PairingNode constructed for a read order, its workers started, after it
\* has processed the prefix of reads that fills its cache to the limit. No
\* MetalCaller takes part.
PairingInit ==
    /\ MembersInit
    /\ mpc = "unstarted"
    /\ m_decode_threads = EmptyBag
    /\ config = RunConfig
    /\ bufset = Unconfigured
    /\ ctl = "idle"
    /\ restarts = 0
    /\ bench = NoBench
    /\ OneCaller
    /\ \E read_order \in {"BY_CHANNEL", "BY_TIME"} :
          LET prefix == Prefix(read_order)
              state == Processed(prefix, read_order,
                                 [caches |-> <<>>, sink |-> EmptyBag])
          IN /\ m_max_num_keys = MaxNumKeys(read_order)
             /\ m_max_num_reads = MaxNumReads(read_order)
             /\ m_read_caches = state.caches
             /\ sink = state.sink
             /\ num_pushed = Len(prefix)
    /\ m_work_queue = <<>>
    /\ work_queue_terminated = FALSE
    /\ m_workers = StartedWorkers
    /\ m_num_active_worker_threads = NumWorkers
    /\ m_preserve_cache_during_flush = FALSE
    /\ pairing_ctl = "running"

PairingFrame ==
    UNCHANGED <<tasks, m_input_queue, m_decode_queue, nzero, mpc, mtask, try_count,
                fwd_count, scan_count, next_decode_complete_event_id, signaled,
                scores, m_decode_threads, m_terminate, m_terminate_decode, config,
                bufset, ctl, restarts, bench, inter_caller_mutex, callers>>

\* The messages a producer can send next: a read of either client, from the
\* pore of the first read of the prefix and starting before the reads of the
\* prefix or together with one of them, or from a pore no read of the prefix
\* came from; a CacheFlushMessage for either client; a message of another
\* kind.
PushedMessages ==
    {ReadMessage(NewRead(num_pushed + 1, pushed[1], client_id, pushed[2])) :
        pushed \in {<<1, 0>>, <<1, 5>>, <<ByChannelMaxNumKeys + 1, 5>>},
        client_id \in 1..NumClients}
    \cup {[kind |-> "flush", client_id |-> client_id] : client_id \in 1..NumClients}
    \cup {[kind |-> "other"]}

\* push_message: a producer hands a message to the node.
PushMessage(message) ==
    /\ pairing_ctl = "running"
    /\ num_pushed < ByChannelMaxNumKeys + MaxMessages
    /\ num_pushed' = num_pushed + 1
    /\ m_work_queue' = Append(m_work_queue, message)
    /\ UNCHANGED <<work_queue_terminated, m_read_caches, m_workers,
                   m_num_active_worker_threads, m_preserve_cache_during_flush,
                   m_max_num_keys, m_max_num_reads, sink, pairing_ctl>>
    /\ PairingFrame

\* m_work_queue.try_pop hands the front message to the worker.
WorkerPop(w) ==
    /\ w.pc = "pop"
    /\ m_work_queue /= <<>>
    /\ m_work_queue' = Tail(m_work_queue)
    /\ LET message == Head(m_work_queue)
       IN m_workers' = WorkerMoved(w,
              [w EXCEPT !.pc = CASE message.kind = "flush" -> "flush"
                                 [] message.kind = "read" -> "cache"
                                 [] OTHER -> "forward",
                        !.message = message])
    /\ UNCHANGED <<work_queue_terminated, m_read_caches,
                   m_num_active_worker_threads, m_preserve_cache_during_flush,
                   m_max_num_keys, m_max_num_reads, sink, pairing_ctl, num_pushed>>
    /\ PairingFrame

\* A CacheFlushMessage: the reads of the client's cache go to the sink and
\* the cache is erased, with m_pairing_mtx held.
WorkerFlush(w) ==
    /\ w.pc = "flush"
    /\ LET client_id == w.message.client_id
           read_cache == ReadCacheOf(m_read_caches, client_id)
       IN /\ sink' = sink (+) SentMap(read_cache.channel_mux_read_map,
                                      DOMAIN read_cache.channel_mux_read_map)
          /\ m_read_caches' = Erased(WithReadCache(m_read_caches, client_id, read_cache),
                                     client_id)
    /\ m_workers' = WorkerMoved(w, PoppingWorker)
    /\ UNCHANGED <<m_work_queue, work_queue_terminated,
                   m_num_active_worker_threads, m_preserve_cache_during_flush,
                   m_max_num_keys, m_max_num_reads, pairing_ctl, num_pushed>>
    /\ PairingFrame

\* A message that is neither a flush nor a read goes to the sink.
WorkerForward(w) ==
    /\ w.pc = "forward"
    /\ sink' = sink (+) SetToBag({w.message})
    /\ m_workers' = WorkerMoved(w, PoppingWorker)
    /\ UNCHANGED <<m_work_queue, work_queue_terminated, m_read_caches,
                   m_num_active_worker_threads, m_preserve_cache_during_flush,
                   m_max_num_keys, m_max_num_reads, pairing_ctl, num_pushed>>
    /\ PairingFrame

\* A read: the worker caches it with m_pairing_mtx held. With a new key the
\* loop body ends; otherwise the worker goes on to look for a pair.
WorkerCache(w) ==
    /\ w.pc = "cache"
    /\ LET cached == CacheRead(m_read_caches, w.message.read,
                               m_max_num_keys, m_max_num_reads)
       IN /\ m_read_caches' = cached.caches
          /\ sink' = sink (+) SentReads(cached.sent)
          /\ m_workers' = WorkerMoved(w,
                 IF cached.paired
                 THEN [pc |-> "pair", message |-> w.message,
                       later_read |-> cached.later_read,
                       earlier_read |-> cached.earlier_read]
                 ELSE PoppingWorker)
    /\ UNCHANGED <<m_work_queue, work_queue_terminated,
                   m_num_active_worker_threads, m_preserve_cache_during_flush,
                   m_max_num_keys, m_max_num_reads, pairing_ctl, num_pushed>>
    /\ PairingFrame

\* After the unlock: the read against its later neighbour, then against its
\* earlier one; the first pair found goes to the sink. The verdicts of
\* is_within_time_and_length_criteria follow from the bases of the two reads
\* and their alignment, which the reads of the model do not carry: either
\* verdict can come out.
WorkerPair(w, later_is_pair, earlier_is_pair) ==
    /\ w.pc = "pair"
    /\ LET read == w.message.read
           later_read == w.later_read
           earlier_read == w.earlier_read
       IN sink' = IF later_read /= <<>> /\ later_is_pair
                  THEN sink (+) SetToBag({ReadPair(read, later_read[1])})
                  ELSE IF earlier_read /= <<>> /\ earlier_is_pair
                  THEN sink (+) SetToBag({ReadPair(earlier_read[1], read)})
                  ELSE sink
    /\ m_workers' = WorkerMoved(w, PoppingWorker)
    /\ UNCHANGED <<m_work_queue, work_queue_terminated, m_read_caches,
                   m_num_active_worker_threads, m_preserve_cache_during_flush,
                   m_max_num_keys, m_max_num_reads, pairing_ctl, num_pushed>>
    /\ PairingFrame

\* --m_num_active_worker_threads: the counter is atomic, so the decrement and
\* the read of its result are one step.
Decremented(counter) == counter - 1

\* m_work_queue.try_pop returns false, the queue being terminated, and the
\* worker leaves its loop: --m_num_active_worker_threads, and the last one
\* cleans the caches up unless they are to be preserved. Whether the messages
\* still queued are handed out first depends on the queue, so a worker may
\* leave with messages queued.
WorkerExit(w) ==
    /\ w.pc = "pop"
    /\ work_queue_terminated
    /\ m_num_active_worker_threads' = Decremented(m_num_active_worker_threads)
    /\ m_workers' = WorkerMoved(w, [w EXCEPT !.pc =
           IF Decremented(m_num_active_worker_threads) = 0
              /\ ~m_preserve_cache_during_flush
           THEN "final_flush"
           ELSE "done"])
    /\ UNCHANGED <<m_work_queue, work_queue_terminated, m_read_caches,
                   m_preserve_cache_during_flush, m_max_num_keys, m_max_num_reads,
                   sink, pairing_ctl, num_pushed>>
    /\ PairingFrame

\* The last worker sends every cached read to the sink and clears the caches,
\* with m_pairing_mtx held.
WorkerFinalFlush(w) ==
    /\ w.pc = "final_flush"
    /\ sink' = sink (+) SentCaches(m_read_caches, DOMAIN m_read_caches)
    /\ m_read_caches' = <<>>
    /\ m_workers' = WorkerMoved(w, [w EXCEPT !.pc = "done"])
    /\ UNCHANGED <<m_work_queue, work_queue_terminated,
                   m_num_active_worker_threads, m_preserve_cache_during_flush,
                   m_max_num_keys, m_max_num_reads, pairing_ctl, num_pushed>>
    /\ PairingFrame

\* terminate(flush_options) up to the joins of terminate_impl.
PairingTerminate(preserve_pairing_caches) ==
    /\ pairing_ctl = "running"
    /\ m_preserve_cache_during_flush' = preserve_pairing_caches
    /\ work_queue_terminated' = TRUE
    /\ pairing_ctl' = "joining"
    /\ UNCHANGED <<m_work_queue, m_read_caches, m_workers,
                   m_num_active_worker_threads, m_max_num_keys, m_max_num_reads,
                   sink, num_pushed>>
    /\ PairingFrame

\* Every worker is joined: terminate_impl clears m_workers and terminate
\* resets m_preserve_cache_during_flush.
PairingJoined ==
    /\ pairing_ctl = "joining"
    /\ \A w \in DOMAIN m_workers : w.pc = "done"
    /\ m_workers' = <<>>
    /\ m_preserve_cache_during_flush' = FALSE
    /\ pairing_ctl' = "terminated"
    /\ UNCHANGED <<m_work_queue, work_queue_terminated, m_read_caches,
                   m_num_active_worker_threads, m_max_num_keys, m_max_num_reads,
                   sink, num_pushed>>
    /\ PairingFrame

\* restart(): the input queue takes messages again and start_threads runs.
PairingRestart ==
    /\ pairing_ctl = "terminated"
    /\ work_queue_terminated' = FALSE
    /\ m_workers' = StartedWorkers
    /\ m_num_active_worker_threads' = m_num_active_worker_threads + NumWorkers
    /\ pairing_ctl' = "running"
    /\ UNCHANGED <<m_work_queue, m_read_caches, m_preserve_cache_during_flush,
                   m_max_num_keys, m_max_num_reads, sink, num_pushed>>
    /\ PairingFrame

PairingNext ==
    \/ \E message \in PushedMessages : PushMessage(message)
    \/ \E w \in BagToSet(m_workers) : WorkerPop(w)
    \/ \E w \in BagToSet(m_workers) : WorkerFlush(w)
    \/ \E w \in BagToSet(m_workers) : WorkerForward(w)
    \/ \E w \in BagToSet(m_workers) : WorkerCache(w)
    \/ \E w \in BagToSet(m_workers), later_is_pair \in BOOLEAN,
          earlier_is_pair \in BOOLEAN : WorkerPair(w, later_is_pair, earlier_is_pair)
    \/ \E w \in BagToSet(m_workers) : WorkerExit(w)
    \/ \E w \in BagToSet(m_workers) : WorkerFinalFlush(w)
    \/ \E preserve_pairing_caches \in BOOLEAN : PairingTerminate(preserve_pairing_caches)
    \/ PairingJoined
    \/ PairingRestart

PairingSpec == PairingInit /\ [][PairingNext]_vars

\* ----------------------------------------------------------------- claims
Id(t) == tasks[t].decode_complete_event_id

AllSlotsDecoded(t) ==
    \A i \in 0..(tasks[t].num_chunks - 1) : tasks[t].out_chunks[i] = <<Id(t)>>

NoSlotWritten(t) ==
    \A i \in 0..(tasks[t].num_chunks - 1) : tasks[t].out_chunks[i] = <<>>

\* C1: while a decode thread has claimed a chunk of the task with completion
\* id N and has not finished decoding it, the score buffers still hold the
\* scores of N; once the accelerator has started writing the scores of N+1,
\* the task with id N has decode_chunks_finished = num_chunks and the
\* completion event has been signaled with N.
C1_BufferReuseOrdering ==
    /\ \A s \in Threads : s.pc = "decode" => scores = Id(s.task)
    /\ \A t \in DOMAIN tasks :
           (Id(t) >= 1 /\ scores = Id(t) + 1) =>
               /\ tasks[t].decode_chunks_finished = tasks[t].num_chunks
               /\ signaled >= Id(t)

\* The accelerator is writing the scores of the second task after a first
\* task of more than one chunk.
C1_Witness ==
    /\ mpc = "gpu"
    /\ scores = 2
    /\ \E t \in DOMAIN tasks : Id(t) = 1 /\ tasks[t].num_chunks >= 2

\* C2: when call_chunks has returned for a task with num_chunks = K >= 1,
\* every output slot 0..K-1 holds the decoded result of that task and
\* decode_chunks_finished = K.
C2_CompletionAccounting ==
    \A t \in DOMAIN tasks :
        tasks[t].client = "returned" =>
            /\ tasks[t].decode_chunks_finished = tasks[t].num_chunks
            /\ AllSlotsDecoded(t)

\* call_chunks has returned for a task of more than one chunk.
C2_Witness ==
    \E t \in DOMAIN tasks : tasks[t].client = "returned" /\ tasks[t].num_chunks >= 2

\* C3: tasks are dequeued in the order they were pushed (the order of their
\* indices in tasks): a task that has been dequeued has a larger completion
\* id than every task pushed before it, and each of those has been dequeued
\* and has had its first forward submission.
C3_FifoOrder ==
    \A t1, t2 \in DOMAIN tasks :
        (t1 < t2 /\ Id(t2) /= 0) =>
            /\ Id(t1) /= 0
            /\ Id(t1) < Id(t2)
            /\ tasks[t1].submitted

\* The second task pushed has been dequeued while the first is still being decoded.
C3_Witness ==
    /\ Len(tasks) >= 2
    /\ Id(2) = 2
    /\ tasks[1].decode_chunks_finished < tasks[1].num_chunks

\* C4: every call_chunks call with num_chunks >= 1 eventually returns, unless
\* the retry budget of some task is exhausted (the process is then ended).
C4_CallReturns ==
    \A t \in 1..MaxCalls :
        (Len(tasks) >= t) ~>
            (mpc = "thrown" \/ (Len(tasks) >= t /\ tasks[t].client = "returned"))

\* A client is blocked on its task's condition variable when the last chunk
\* of the task has been decoded: only the notification can release it.
C4_Witness ==
    \E t \in DOMAIN tasks : tasks[t].client = "waiting" /\ WaitOver(t)

\* C5: a call with num_chunks = 0 changes nothing but the count of such
\* calls: no task is created, both queues, every task, the compute thread,
\* the decode threads and the next completion id are unchanged.
C5_ZeroChunkCall ==
    [][nzero' /= nzero =>
          UNCHANGED <<tasks, m_input_queue, m_decode_queue, mpc, mtask, try_count,
                      fwd_count, scan_count, next_decode_complete_event_id,
                      signaled, scores, m_decode_threads, m_terminate,
                      m_terminate_decode, config, bufset,
                      ctl, restarts, bench>>]_vars

\* An empty call was made while a task was queued.
C5_Witness == nzero >= 1 /\ m_input_queue /= <<>>

\* C6: at most 5 forward submissions are made for a task; the error is raised
\* only after exactly 5; and when 5 forward submissions have been made and
\* none returned a command buffer, the error has been raised.
C6_RetryExhaustion ==
    /\ fwd_count <= 5
    /\ mpc = "thrown" => fwd_count = 5
    /\ (fwd_count >= 5 /\ scan_count = 0) => mpc = "thrown"

\* The error was raised for a task whose forward submissions all failed.
C6_Witness == mpc = "thrown" /\ scan_count = 0 /\ fwd_count = 5

\* C7: once the retry loop has used up its budget the compute thread has
\* thrown; the failing task is not in the decode queue, no chunk of it was
\* picked up, none of its output slots is written, its client has not
\* returned, no task still queued has a completion id or a submission, and
\* no step follows.
C7_FatalNotSilent ==
    /\ [](try_count >= RetryBudget => mpc = "thrown")
    /\ [](mpc = "thrown" =>
            /\ \A i \in 1..Len(m_decode_queue) : m_decode_queue[i] /= mtask
            /\ tasks[mtask].decode_chunks_started = 0
            /\ NoSlotWritten(mtask)
            /\ tasks[mtask].client /= "returned"
            /\ \A i \in 1..Len(m_input_queue) :
                   /\ Id(m_input_queue[i]) = 0
                   /\ ~tasks[m_input_queue[i]].submitted)
    /\ [][mpc /= "thrown"]_vars

\* The error was raised while a later task was queued.
C7_Witness == mpc = "thrown" /\ m_input_queue /= <<>>

\* C8: after set_chunk_batch_size, m_out_split >= 1 divides
\* m_batch_size / 48, m_out_batch_size is a multiple of 48,
\* m_out_split * m_out_batch_size = m_batch_size, and the three assertions hold.
C8_SplitDivides ==
    bufset /= Unconfigured =>
        /\ bufset.m_out_split >= 1
        /\ (config.batch_size \div MTL_CORE_BATCH_SIZE) % bufset.m_out_split = 0
        /\ bufset.m_out_batch_size % MTL_CORE_BATCH_SIZE = 0
        /\ bufset.m_out_split * bufset.m_out_batch_size = config.batch_size
        /\ bufset.assert_pieces
        /\ bufset.assert_batch
        /\ bufset.assert_quantum

\* A configuration split into 5 after the splits 2, 3 and 4 were passed over.
C8_Witness == bufset /= Unconfigured /\ bufset.m_out_split = 5

ConfigPieces == config.batch_size \div MTL_CORE_BATCH_SIZE

ConfigBytes ==
    (config.chunk_size \div config.stride) * config.batch_size * config.outsize * 4

\* d divides the number of batch pieces and a d-th of the output is small enough.
FitsSplit(d) == ConfigPieces % d = 0 /\ ConfigBytes \div d <= kMaxBufferSize

\* C9: m_out_split is the smallest divisor of pieces whose share of the output
\* is at most 2^29 bytes; when no divisor below pieces has such a share,
\* m_out_split = pieces.
C9_SmallestDivisor ==
    bufset /= Unconfigured =>
        /\ (\E d \in 1..ConfigPieces : FitsSplit(d)) =>
               /\ FitsSplit(bufset.m_out_split)
               /\ \A e \in 1..(bufset.m_out_split - 1) : ~FitsSplit(e)
        /\ (\A d \in 1..(ConfigPieces - 1) : ~FitsSplit(d)) =>
               bufset.m_out_split = ConfigPieces

\* No divisor has a small enough share: the split is pieces and its share
\* is above the limit.
C9_Witness ==
    /\ bufset /= Unconfigured
    /\ ConfigPieces >= 2
    /\ bufset.m_out_split = ConfigPieces
    /\ ConfigBytes \div ConfigPieces > kMaxBufferSize

ScenarioC10 ==
    /\ config.chunk_size = 2000
    /\ config.stride = 5
    /\ config.batch_size = 480
    /\ ConfigBytes > kMaxBufferSize
    /\ ConfigBytes \div 2 <= kMaxBufferSize

\* C10: chunk_length 2000, stride 5, batch_size 480 and an output that is
\* above the limit while half of it is not give out_len 400, pieces 10,
\* split 2, per-split batch size 240, and two buffers of each kind, each
\* dimensioned for 240 chunks.
C10_ConcreteScenario ==
    (bufset /= Unconfigured /\ ScenarioC10) =>
        /\ bufset.m_out_chunk_size = 400
        /\ ConfigPieces = 10
        /\ bufset.m_out_split = 2
        /\ bufset.m_out_batch_size = 240
        /\ Len(bufset.m_scores_int8) = 2
        /\ Len(bufset.m_posts_int16) = 2
        /\ Len(bufset.m_bwd) = 2
        /\ \A i \in 1..2 :
               /\ bufset.m_scores_int8[i] = <<400, 240, config.outsize>>
               /\ bufset.m_posts_int16[i] = <<240, 401, config.states>>
               /\ bufset.m_bwd[i] = <<240, 401, config.states>>

\* set_chunk_batch_size has run on the scenario.
C10_Witness == bufset /= Unconfigured /\ ScenarioC10

\* The per-element time the k-th candidate tried was measured with.
TriedUs(k) ==
    LET batch_size == bench.tried[k][1]
        elapsed_us == bench.tried[k][2]
    IN  IF elapsed_us >= 0 THEN elapsed_us \div batch_size
                           ELSE -((-elapsed_us) \div batch_size)

\* C11: when benchmark_batch_sizes returns, every candidate has been tried
\* once and the size returned is the first one tried whose per-element time
\* (elapsed microseconds divided by the batch size, truncated) is the lowest
\* of all.
C11_LowestPerElementTime ==
    bench.pc = "returned" =>
        /\ {bench.tried[k][1] : k \in 1..Len(bench.tried)} = bench.test_batch_sizes
        /\ Len(bench.tried) = Cardinality(bench.test_batch_sizes)
        /\ \E k \in 1..Len(bench.tried) :
               /\ bench.tried[k][1] = bench.best_batch_size
               /\ \A j \in 1..Len(bench.tried) :
                      /\ TriedUs(k) <= TriedUs(j)
                      /\ j < k => TriedUs(k) < TriedUs(j)

\* The benchmark has returned after two candidates tied for the lowest
\* per-element time and a third one was slower.
C11_Witness ==
    /\ bench.pc = "returned"
    /\ \E j, k, l \in 1..Len(bench.tried) :
           /\ j < k
           /\ TriedUs(j) = TriedUs(k)
           /\ TriedUs(l) > TriedUs(j)
           /\ \A i \in 1..Len(bench.tried) : TriedUs(j) <= TriedUs(i)

\* C12: for every physical memory size, memory-limit fraction, chunk length
\* and core count >= 1, benchmark_batch_sizes runs to its end, tries at least
\* one candidate, and returns a size that is at least 48 and a multiple of 48.
C12_BenchmarkAlwaysValid ==
    /\ bench.pc /= "trap"
    /\ bench.pc = "returned" =>
           /\ Len(bench.tried) >= 1
           /\ AssertBestAtLeastCore
           /\ AssertBestMultiple

\* The decode side of task t: its two counters and its output slots.
DecodeSide(t) ==
    <<tasks[t].decode_chunks_started, tasks[t].decode_chunks_finished,
      tasks[t].out_chunks>>

\* The thread in state s takes a step.
Leaves(s) == CopiesIn(s, m_decode_threads') < CopiesIn(s, m_decode_threads)

\* C13: every call creates a task of its own and leaves the others as they
\* are; a decode thread that decodes a chunk of task A writes A's output slot
\* of that chunk and nothing else of any task; a decode thread that counts a
\* chunk of A as finished adds one to A's decode_chunks_finished and changes
\* nothing else of any task; no step changes the decode side of two tasks;
\* and a client returns only when decode_chunks_finished of its own task
\* equals its own num_chunks.
C13_TaskIsolation ==
    [][/\ Len(tasks') > Len(tasks) =>
              /\ Len(tasks') = Len(tasks) + 1
              /\ \A t \in DOMAIN tasks : tasks'[t] = tasks[t]
              /\ tasks'[Len(tasks')].decode_chunks_started = 0
              /\ tasks'[Len(tasks')].decode_chunks_finished = 0
       /\ \A s \in Threads :
              (s.pc = "decode" /\ Leaves(s)) =>
                  /\ \A u \in DOMAIN tasks : u /= s.task => tasks'[u] = tasks[u]
                  /\ tasks'[s.task] =
                         [tasks[s.task] EXCEPT
                              !.out_chunks[s.chunk_idx] = tasks'[s.task].out_chunks[s.chunk_idx]]
       /\ \A s \in Threads :
              (s.pc = "finish" /\ Leaves(s)) =>
                  /\ \A u \in DOMAIN tasks : u /= s.task => tasks'[u] = tasks[u]
                  /\ tasks'[s.task] =
                         [tasks[s.task] EXCEPT !.decode_chunks_finished = @ + 1]
       /\ \A t, u \in DOMAIN tasks :
              (t /= u /\ DecodeSide(t)' /= DecodeSide(t)) => DecodeSide(u)' = DecodeSide(u)
       /\ \A t \in DOMAIN tasks :
              (tasks[t].client /= "returned" /\ tasks'[t].client = "returned") =>
                  tasks[t].decode_chunks_finished = tasks[t].num_chunks
      ]_vars

\* Two clients are blocked in call_chunks; a chunk of the first task is
\* being decoded while the second task, none of whose chunks has been picked
\* up, waits in the queue.
C13_Witness ==
    /\ Len(tasks) = 2
    /\ tasks[1].client = "waiting"
    /\ tasks[2].client = "waiting"
    /\ \E s \in Threads : s.pc = "decode" /\ s.task = 1
    /\ tasks[1].decode_chunks_finished >= 1
    /\ tasks[2].decode_chunks_started = 0

\* The task held by the compute thread was created after the restart.
AfterRestart(t) == t >= 2

\* The command buffer of the task held by the compute thread waits for a
\* value the event does not have, no decode thread has work, and nothing is
\* queued for them: no step can raise the event, so the accelerator never
\* starts on the task.
SubmissionBlocked ==
    /\ mpc = "scan"
    /\ ~EventReached(tasks[mtask].decode_complete_event_id - 1)
    /\ m_decode_queue = <<>>
    /\ \A s \in Threads : s.pc = "wait"

\* C14: after terminate() and restart() the caller serves tasks with the
\* buffers set_chunk_batch_size made: the buffers are unchanged, and no task
\* submitted after the restart is left with a submission that cannot proceed.
C14_ServesAfterRestart ==
    /\ bufset = SetChunkBatchSizeResult(RunConfig)
    /\ (mtask /= 0 /\ AfterRestart(mtask)) => ~SubmissionBlocked

\* Some decode thread still has a chunk of task t to decode or to count, or
\* has yet to signal the completion of t.
DecodePending(t) ==
    \E s \in Threads : s.task = t /\ s.pc \in {"decode", "finish", "signal"}

\* C15: for two consecutive tasks A then B submitted after a restart that
\* followed a completed task, once the accelerator has started writing the
\* scores of B every chunk of A has been decoded and counted and the
\* completion of A has been signaled.
C15_ReuseOrderingAfterRestart ==
    \A A, B \in DOMAIN tasks :
        (/\ AfterRestart(A)
         /\ AfterRestart(B)
         /\ Id(A) >= 1
         /\ Id(B) = Id(A) + 1
         /\ scores = Id(B)) =>
            /\ tasks[A].decode_chunks_finished = tasks[A].num_chunks
            /\ ~DecodePending(A)

\* C19: over the whole life of a caller, terminate() and restart() included,
\* the first task dequeued gets completion id 1, a task dequeued later gets a
\* larger id than every task dequeued before it, and the signaled value of
\* the completion event never decreases.
C19_IdsIncrease ==
    /\ [](\A t \in DOMAIN tasks : Id(t) /= 0 => Id(t) >= 1)
    /\ [](\A t1, t2 \in DOMAIN tasks : (t1 < t2 /\ Id(t2) /= 0) => Id(t1) < Id(t2))
    /\ [][signaled' >= signaled]_vars

\* Task t has been handed to the decode threads: it is in the decode queue or
\* a chunk of it has been picked up from there.
HandedOff(t) ==
    \/ \E i \in 1..Len(m_decode_queue) : m_decode_queue[i] = t
    \/ tasks[t].decode_chunks_started >= 1

\* C16: the compute thread exits, and sets m_terminate_decode, only from its
\* wait with m_terminate set, the input queue empty and no task held; every
\* task created by then has been dequeued and handed to the decode threads;
\* and while it holds a task with m_terminate set, its next step keeps the
\* task in the retry loop, hands it to the decode threads, or raises the
\* error of an exhausted retry budget.
C16_TerminationBetweenTasks ==
    [][/\ (mpc' = "exited" /\ mpc /= "exited") =>
              /\ mpc = "wait"
              /\ m_terminate
              /\ m_input_queue = <<>>
              /\ mtask = 0
              /\ m_terminate_decode'
              /\ \A t \in DOMAIN tasks : Id(t) /= 0 /\ HandedOff(t)
       /\ (m_terminate_decode' /\ ~m_terminate_decode) => mpc' = "exited"
       /\ (m_terminate /\ mtask /= 0 /\ mpc' /= mpc) =>
              \/ mtask' = mtask /\ mpc' \in {"forward", "scan", "gpu", "handoff"}
              \/ mtask' = mtask /\ mpc' = "thrown" /\ try_count' >= 5
              \/ /\ mpc = "handoff"
                 /\ mpc' = "wait"
                 /\ \E i \in 1..Len(m_decode_queue') : m_decode_queue'[i] = mtask
      ]_vars

\* terminate() is waiting for the compute thread, which has retried the task
\* it holds and has another task queued behind it.
C16_Witness ==
    /\ ctl = "join_metal"
    /\ m_terminate
    /\ mpc = "handoff"
    /\ try_count >= 1
    /\ m_input_queue /= <<>>

\* C17: a decode thread exits only when the decode queue is empty and
\* m_terminate_decode is set; m_terminate_decode is set only by the step in
\* which the compute thread exits; and when terminate() returns, every task
\* handed to the decode threads has all its chunks decoded and counted and its
\* client is not blocked on it any more.
C17_DecodeDrained ==
    [][/\ CopiesIn(ExitedThread, m_decode_threads')
              > CopiesIn(ExitedThread, m_decode_threads) =>
              m_decode_queue = <<>> /\ m_terminate_decode
       /\ (m_terminate_decode' /\ ~m_terminate_decode) =>
              mpc = "wait" /\ mpc' = "exited"
       /\ (ctl = "join_decode" /\ ctl' = "idle") =>
              \A t \in DOMAIN tasks :
                  HandedOff(t) =>
                      /\ tasks[t].decode_chunks_finished = tasks[t].num_chunks
                      /\ \A i \in 0..(tasks[t].num_chunks - 1) :
                             Len(tasks[t].out_chunks[i]) = 1
                      /\ tasks[t].client /= "waiting"
      ]_vars

\* terminate() has returned after two tasks were decoded; the client of the
\* second has been woken and has not yet looked at its task.
C17_Witness ==
    /\ ctl = "idle"
    /\ m_terminate
    /\ m_decode_threads = EmptyBag
    /\ Len(tasks) = 2
    /\ tasks[1].decode_chunks_finished = tasks[1].num_chunks
    /\ tasks[2].decode_chunks_finished = tasks[2].num_chunks
    /\ tasks[2].client = "check"

\* The compute threads and the decode threads that have not returned.
LiveComputeThreads == IF mpc \in {"unstarted", "exited"} THEN 0 ELSE 1

LiveDecodeThreads ==
    BagCardinality(m_decode_threads) - CopiesIn(ExitedThread, m_decode_threads)

\* C18: a constructed caller on which no terminate() is in progress has one
\* live compute thread and N = max(1, performance cores - 1) live decode
\* threads when m_terminate is false, and no thread at all when m_terminate
\* is true; threads are started only when there is none; and restart() on a
\* caller that is not terminated changes nothing.
C18_ThreadCounts ==
    /\ []((Alive /\ ctl = "idle" /\ ~m_terminate) =>
            /\ LiveComputeThreads = 1
            /\ LiveDecodeThreads = (IF PerfCoreCount - 1 >= 1 THEN PerfCoreCount - 1 ELSE 1)
            /\ BagCardinality(m_decode_threads) = LiveDecodeThreads)
    /\ []((Alive /\ ctl = "idle" /\ m_terminate) =>
            /\ mpc = "unstarted"
            /\ m_decode_threads = EmptyBag)
    /\ [][/\ (mpc' = "wait" /\ mpc \in {"unstarted", "exited"}) =>
                 (mpc = "unstarted" /\ m_decode_threads = EmptyBag)
          /\ BagCardinality(m_decode_threads') > BagCardinality(m_decode_threads) =>
                 (mpc = "unstarted" /\ m_decode_threads = EmptyBag)
          /\ (restarts' /= restarts /\ ~m_terminate) =>
                 UNCHANGED <<tasks, m_input_queue, m_decode_queue, nzero, mpc, mtask,
                             try_count, fwd_count, scan_count,
                             next_decode_complete_event_id, signaled, scores,
                             m_decode_threads, m_terminate, m_terminate_decode,
                             config, bufset, ctl, bench>>
         ]_vars

\* The caller runs after restart() was called twice and a task was served.
C18_Witness ==
    /\ restarts = 2
    /\ ctl = "idle"
    /\ ~m_terminate
    /\ mpc = "wait"
    /\ \E t \in DOMAIN tasks : tasks[t].client = "returned"

\* C20: the members set_chunk_batch_size assigns change only in the
\* constructor's set_chunk_batch_size call, made before any thread is started
\* and before any task exists; once a task exists no step changes them.
C20_BufferSetFrame ==
    [][/\ (bufset' /= bufset \/ config' /= config) =>
              /\ ctl = "configure"
              /\ mpc = "unstarted"
              /\ m_decode_threads = EmptyBag
              /\ tasks = <<>>
              /\ bufset' = SetChunkBatchSizeResult(config')
       /\ tasks /= <<>> => UNCHANGED <<bufset, config>>
      ]_vars

\* A task was served after terminate() and restart() by the buffers the
\* constructor made.
C20_Witness ==
    /\ restarts >= 1
    /\ ~m_terminate
    /\ Len(tasks) = 2
    /\ tasks[2].client = "returned"
    /\ bufset = SetChunkBatchSizeResult(RunConfig)

\* ---- C21 ----
\* C21: when several callers exist in one process, at most one of them is
\* executing a submission (forward pass plus scan kernels) at any time, the
\* benchmark submissions of a caller under construction included.
SubmittingCallers ==
    {c \in DOMAIN callers :
        callers[c].pc \in {"forward", "scan", "bench_forward", "bench_scan"}}

C21_OneSubmissionAtATime == Cardinality(SubmittingCallers) <= 1

\* The compute threads alone do exclude each other.
ComputeThreadsExclude ==
    /\ Cardinality({c \in DOMAIN callers : callers[c].pc \in {"forward", "scan"}}) <= 1
    /\ \A c \in DOMAIN callers :
           callers[c].pc \in {"forward", "scan"} <=> inter_caller_mutex = c

\* ---- C22 ----
\* C22: for every requested batch size > 0 the constructor configures a batch
\* size that is a multiple of 48, is not below the request and is less than 48
\* above it (the request rounded up to the next multiple of 48); the benchmark
\* is entered if and only if the requested batch size is 0.
C22_ConfiguredBatchSize ==
    [][/\ ctl = "select" =>
              /\ (ctl' = "benchmark") <=> (config.batch_size = 0)
              /\ (ctl' = "configure") <=> (config.batch_size /= 0)
       /\ ctl' = "benchmark" /\ ctl /= "benchmark" => ctl = "select"
       /\ bench'.pc /= "none" /\ bench.pc = "none" => ctl = "select"
       /\ ctl = "configure" /\ bench.pc = "none" /\ config.batch_size > 0 =>
              /\ config'.batch_size % MTL_CORE_BATCH_SIZE = 0
              /\ config'.batch_size >= config.batch_size
              /\ config'.batch_size - config.batch_size < MTL_CORE_BATCH_SIZE
              /\ bufset'.m_batch_size = config'.batch_size]_vars

\* A request of 100 has been configured as 144.
C22_Witness ==
    /\ ctl = "start"
    /\ bench = NoBench
    /\ config.batch_size = 144
    /\ bufset.m_batch_size = 144

\* ---- C23 ----
InDecodeQueue(t) == \E i \in 1..Len(m_decode_queue) : m_decode_queue[i] = t

\* C23: a task enters the decode queue only by the hand-off step of the
\* compute thread holding it, which is reached only from an attempt whose
\* forward submission and scan kernels both succeeded; it was never in the
\* queue before and it is in the queue once; a task the compute thread still
\* holds in its retry loop is not in the decode queue and no chunk of it has
\* been picked up.
C23_PushedAfterSuccess ==
    /\ [][/\ \A t \in DOMAIN tasks :
                 (~InDecodeQueue(t) /\ InDecodeQueue(t)') =>
                     /\ mpc = "handoff"
                     /\ mtask = t
                     /\ ~HandedOff(t)
          /\ (mpc' = "handoff" /\ mpc /= "handoff") =>
                 /\ mpc = "gpu"
                 /\ scan_count >= 1
                 /\ fwd_count = try_count + 1]_vars
    /\ [](mtask /= 0 => ~HandedOff(mtask))
    /\ [](\A i, j \in 1..Len(m_decode_queue) :
              m_decode_queue[i] = m_decode_queue[j] => i = j)

\* A task is visible in the decode queue while the compute thread retries a
\* later task after a failed attempt.
C23_Witness ==
    /\ mtask /= 0
    /\ try_count >= 1
    /\ \E t \in DOMAIN tasks : t /= mtask /\ InDecodeQueue(t)

\* ---- C24 ----
\* C24: whatever the mixture of forward failures and scan failures, at most 5
\* forward submissions are made for a task, one per attempt; every failure of
\* either kind uses up one attempt; after a scan failure with budget left the
\* forward pass is submitted again; and after the first attempt in which both
\* succeed no further submission is made for the task.
C24_SharedBudget ==
    /\ [](mtask /= 0 =>
            /\ fwd_count <= 5
            /\ scan_count <= fwd_count
            /\ fwd_count = try_count
                             + (IF mpc \in {"scan", "gpu", "handoff"} THEN 1 ELSE 0))
    /\ [][/\ (mpc \in {"scan", "gpu"} /\ mpc' \notin {"scan", "gpu", "handoff"}) =>
                 /\ try_count' = try_count + 1
                 /\ mpc' = IF try_count' < 5 THEN "forward" ELSE "thrown"
          /\ (mpc = "forward" /\ mpc' /= "forward") =>
                 /\ fwd_count' = fwd_count + 1
                 /\ mpc' \in {"scan", "forward", "thrown"}
          /\ (mpc = "forward" /\ mpc' = "forward") =>
                 \/ UNCHANGED <<try_count, fwd_count>>
                 \/ (try_count' = try_count + 1 /\ fwd_count' = fwd_count + 1)
          /\ mpc = "handoff" =>
                 \/ (mpc' = "handoff" /\ UNCHANGED <<mtask, fwd_count, scan_count>>)
                 \/ (mpc' = "wait" /\ mtask' = 0)]_vars

\* The fifth attempt succeeded after forward failures and a scan failure.
C24_Witness ==
    /\ mpc = "handoff"
    /\ fwd_count = 5
    /\ scan_count = 2

\* ---- C25 ----
\* C25: in every attempt, retries included, the command buffer of the task
\* with completion id n can start on the accelerator exactly when the event
\* has reached n - 1; the id of a task is the one assigned when it was
\* dequeued; the first task has id 1, and its command buffer can always start.
C25_WaitValue ==
    /\ mtask /= 0 => Id(mtask) = next_decode_complete_event_id - 1
    /\ mtask = 1 => Id(mtask) = 1
    /\ mpc = "scan" => (ENABLED GpuBegin <=> signaled >= Id(mtask) - 1)
    /\ (mpc = "scan" /\ Id(mtask) = 1) => ENABLED GpuBegin

\* A retry of the second task is held back by the event.
C25_Witness ==
    /\ mpc = "scan"
    /\ try_count >= 1
    /\ Id(mtask) = 2
    /\ signaled = 0

\* ---- C26 ----
\* C26: for a task with num_chunks = K, every chunk index held by a decode
\* thread is in 0..K-1 and is held by one thread only; decode_chunks_started
\* grows by one per claim and the claiming thread gets its value before the
\* increment, so each index below K is claimed once and none above; the task
\* is in the decode queue while fewer than K indices are claimed and leaves
\* it in the step that claims K-1.
C26_ChunkClaims ==
    /\ [](\A s \in Threads :
              s.task /= 0 =>
                  /\ s.chunk_idx \in 0..(tasks[s.task].num_chunks - 1)
                  /\ s.chunk_idx < tasks[s.task].decode_chunks_started
                  /\ CopiesIn(s, m_decode_threads) = 1
                  /\ \A s2 \in Threads :
                         (s2.task = s.task /\ s2.chunk_idx = s.chunk_idx) => s2 = s)
    /\ [](\A t \in DOMAIN tasks :
              /\ tasks[t].decode_chunks_started <= tasks[t].num_chunks
              /\ InDecodeQueue(t) =>
                     tasks[t].decode_chunks_started < tasks[t].num_chunks)
    /\ [][\A t \in DOMAIN tasks :
              /\ tasks'[t].decode_chunks_started /= tasks[t].decode_chunks_started =>
                     /\ tasks'[t].decode_chunks_started =
                            tasks[t].decode_chunks_started + 1
                     /\ InDecodeQueue(t)
                     /\ LET s == [pc |-> "decode", task |-> t,
                                  chunk_idx |-> tasks[t].decode_chunks_started]
                        IN  /\ CopiesIn(s, m_decode_threads) = 0
                            /\ CopiesIn(s, m_decode_threads') = 1
                     /\ InDecodeQueue(t)' <=>
                            tasks[t].decode_chunks_started /= tasks[t].num_chunks - 1
              /\ (InDecodeQueue(t) /\ ~InDecodeQueue(t)') =>
                     tasks'[t].decode_chunks_started = tasks[t].num_chunks]_vars

\* Both chunks of a task are held by decode threads and the task has left
\* the queue.
C26_Witness ==
    \E t \in DOMAIN tasks :
        /\ tasks[t].num_chunks = 2
        /\ ~InDecodeQueue(t)
        /\ \E s1, s2 \in Threads :
               /\ s1.task = t /\ s1.chunk_idx = 0 /\ s1.pc = "decode"
               /\ s2.task = t /\ s2.chunk_idx = 1 /\ s2.pc = "decode"

\* ---- C27 ----
\* C27: every output slot is written at most once; a thread about to write a
\* slot finds it unwritten and is the only thread about to write it; and no
\* slot of a task changes once the task's client has returned.
C27_SlotWrittenOnce ==
    /\ [](\A t \in DOMAIN tasks :
              \A i \in 0..(tasks[t].num_chunks - 1) : Len(tasks[t].out_chunks[i]) <= 1)
    /\ [](\A s \in Threads :
              s.pc = "decode" =>
                  /\ tasks[s.task].out_chunks[s.chunk_idx] = <<>>
                  /\ CopiesIn(s, m_decode_threads) = 1)
    /\ [][\A t \in DOMAIN tasks :
              tasks[t].client = "returned" =>
                  tasks'[t].out_chunks = tasks[t].out_chunks]_vars

\* Two threads have written different slots of one task.
C27_Witness ==
    \E s1, s2 \in Threads :
        /\ s1.pc = "finish" /\ s2.pc = "finish"
        /\ s1.task = s2.task
        /\ s1.chunk_idx /= s2.chunk_idx
        /\ \A i \in 0..1 : Len(tasks[s1.task].out_chunks[i]) = 1

\* ---- C28 ----
\* C28: a thread is about to signal, or has signaled, the event for a task
\* only when all num_chunks chunks of it are decoded and stored, and it is the
\* only such thread for that task; a thread gets there exactly in the step
\* whose increment makes decode_chunks_finished equal to num_chunks, a value
\* the counter never passes; and that thread's signal sets the event to the
\* task's completion id.
C28_SignaledOnce ==
    /\ [](\A s \in Threads :
              s.pc \in {"signal", "notify"} =>
                  /\ tasks[s.task].decode_chunks_finished = tasks[s.task].num_chunks
                  /\ \A i \in 0..(tasks[s.task].num_chunks - 1) :
                         Len(tasks[s.task].out_chunks[i]) = 1
                  /\ CopiesIn(s, m_decode_threads) = 1
                  /\ \A s2 \in Threads :
                         (s2.pc \in {"signal", "notify"} /\ s2.task = s.task) => s2 = s)
    /\ [](\A t \in DOMAIN tasks :
              tasks[t].decode_chunks_finished <= tasks[t].num_chunks)
    /\ [][/\ \A s \in BagToSet(m_decode_threads') :
                 (s.pc = "signal" /\ CopiesIn(s, m_decode_threads) = 0) =>
                     /\ tasks'[s.task].decode_chunks_finished =
                            tasks[s.task].decode_chunks_finished + 1
                     /\ tasks'[s.task].decode_chunks_finished = tasks[s.task].num_chunks
          /\ \A t \in DOMAIN tasks :
                 (/\ tasks'[t].decode_chunks_finished /= tasks[t].decode_chunks_finished
                  /\ tasks'[t].decode_chunks_finished = tasks[t].num_chunks) =>
                     \E s \in BagToSet(m_decode_threads') :
                         /\ s.pc = "signal" /\ s.task = t
                         /\ CopiesIn(s, m_decode_threads) = 0
          /\ \A s \in Threads :
                 (s.pc = "signal" /\ Leaves(s)) => signaled' = Id(s.task)
          /\ signaled' /= signaled =>
                 \E s \in Threads :
                     s.pc = "signal" /\ Leaves(s) /\ signaled' = Id(s.task)]_vars

\* The event has been signaled for a task of two chunks.
C28_Witness ==
    \E s \in Threads :
        /\ s.pc = "notify"
        /\ tasks[s.task].num_chunks = 2
        /\ signaled = Id(s.task)

\* ---- C29 ----
\* C29 as stated: when call_chunks has returned for a task, the event has
\* been signaled with that task's completion id.
C29_SignaledBeforeReturn ==
    \A t \in DOMAIN tasks : tasks[t].client = "returned" => signaled >= Id(t)

\* C29 amended: a thread notifies the client only after it has signaled the
\* event with the task's completion id; when call_chunks has returned for a
\* task, decode_chunks_finished equals num_chunks and the event has been
\* signaled with the task's id or the thread that made the last increment is
\* about to signal it.
C29_SignalBeforeNotify ==
    /\ \A s \in Threads : s.pc = "notify" => signaled >= Id(s.task)
    /\ \A t \in DOMAIN tasks :
           tasks[t].client = "returned" =>
               /\ tasks[t].decode_chunks_finished = tasks[t].num_chunks
               /\ \/ signaled >= Id(t)
                  \/ \E s \in Threads : s.pc = "signal" /\ s.task = t

\* call_chunks has returned while the thread that completed the task has not
\* signaled the event yet.
C29_Witness ==
    \E t \in DOMAIN tasks :
        /\ tasks[t].client = "returned"
        /\ signaled < Id(t)
        /\ \E s \in Threads : s.pc = "signal" /\ s.task = t

\* ---- C30 ----
\* C30: for every chunk index c with 0 <= c < num_chunks <= batch_size, the
\* decode step reads buffer c / per_split_batch_size at place
\* c % per_split_batch_size; the buffer index is below the split count and
\* within each of the three buffer vectors, the place is below the per-split
\* batch size and within the buffer's batch dimension, and c is recovered from
\* the pair, so distinct indices get distinct pairs.
C30_SliceOfChunk ==
    \A s \in Threads :
        (/\ s.pc = "finish"
         /\ 0 <= s.chunk_idx
         /\ s.chunk_idx < tasks[s.task].num_chunks
         /\ tasks[s.task].num_chunks <= bufset.m_batch_size) =>
            /\ s.out_buf_idx = s.chunk_idx \div bufset.m_out_batch_size
            /\ s.buf_chunk_idx = s.chunk_idx % bufset.m_out_batch_size
            /\ s.out_buf_idx >= 0
            /\ s.out_buf_idx < bufset.m_out_split
            /\ s.out_buf_idx + 1 \in DOMAIN bufset.m_scores_int8
            /\ s.out_buf_idx + 1 \in DOMAIN bufset.m_bwd
            /\ s.out_buf_idx + 1 \in DOMAIN bufset.m_posts_int16
            /\ s.buf_chunk_idx >= 0
            /\ s.buf_chunk_idx < bufset.m_out_batch_size
            /\ s.buf_chunk_idx < bufset.m_scores_int8[s.out_buf_idx + 1][2]
            /\ s.buf_chunk_idx < bufset.m_bwd[s.out_buf_idx + 1][1]
            /\ s.buf_chunk_idx < bufset.m_posts_int16[s.out_buf_idx + 1][1]
            /\ s.chunk_idx = s.out_buf_idx * bufset.m_out_batch_size + s.buf_chunk_idx

\* The last chunk of a full batch was read from the last of five buffers.
C30_Witness ==
    \E s \in Threads :
        /\ s.pc = "finish"
        /\ bufset.m_out_split = 5
        /\ tasks[s.task].num_chunks = bufset.m_batch_size
        /\ s.chunk_idx = bufset.m_batch_size - 1
        /\ s.out_buf_idx = 4
        /\ s.buf_chunk_idx = bufset.m_out_batch_size - 1

\* ---- C31 ----
\* C31: once benchmark_batch_sizes has built its candidate set, max_batch_size
\* is a multiple of 48 between 48 and 48 * core_count, min_batch_size is the
\* smaller of 48 * core_count / 4 and max_batch_size, and the candidate set
\* holds max_batch_size, has 1 to 17 members, and every member is a multiple
\* of 48 between 48 and max_batch_size.
C31_CandidateSet ==
    bench.pc = "loop" =>
        /\ bench.core_count >= 1
        /\ bench.max_batch_size >= 48
        /\ bench.max_batch_size <= 48 * bench.core_count
        /\ bench.max_batch_size % 48 = 0
        /\ bench.min_batch_size =
               (IF (48 * bench.core_count) \div 4 < bench.max_batch_size
                THEN (48 * bench.core_count) \div 4
                ELSE bench.max_batch_size)
        /\ bench.min_batch_size <= bench.max_batch_size
        /\ bench.max_batch_size \in bench.test_batch_sizes
        /\ Cardinality(bench.test_batch_sizes) >= 1
        /\ Cardinality(bench.test_batch_sizes) <= 17
        /\ \A b \in bench.test_batch_sizes :
               /\ b % 48 = 0
               /\ b >= 48
               /\ b <= bench.max_batch_size

\* A machine whose candidate set has all 17 members.
C31_Witness ==
    /\ bench.pc = "loop"
    /\ Cardinality(bench.test_batch_sizes) = 17
    /\ bench.min_batch_size < bench.max_batch_size

\* ---- C32 ----
\* C32: every set_chunk_batch_size call leaves the output chunk length at
\* floor(chunk length / stride) and the input chunk length at that times the
\* stride: a multiple of the stride, not above the chunk length and less than
\* a stride below it; and the chunk length the benchmark loop passes is the
\* smaller of the caller's chunk length rounded down to a multiple of the
\* stride and 300 strides.
C32_ChunkLengths ==
    [][/\ ((bench.pc = "loop" /\ bench'.pc = "loop")
              \/ (ctl = "configure" /\ ctl' /= "configure")) =>
              /\ config'.chunk_size >= 0
              /\ config'.stride >= 1
              /\ bufset'.m_out_chunk_size * config'.stride <= config'.chunk_size
              /\ (bufset'.m_out_chunk_size + 1) * config'.stride > config'.chunk_size
              /\ bufset'.m_in_chunk_size = bufset'.m_out_chunk_size * config'.stride
              /\ bufset'.m_in_chunk_size % config'.stride = 0
              /\ bufset'.m_in_chunk_size <= config'.chunk_size
              /\ config'.chunk_size - bufset'.m_in_chunk_size < config'.stride
       /\ (bench.pc = "loop" /\ bench'.pc = "loop") =>
              LET rounded == (bench.chunk_size \div config.stride) * config.stride
              IN  config'.chunk_size =
                      (IF rounded < config.stride * 300
                       THEN rounded ELSE config.stride * 300)
       /\ (ctl = "configure" /\ ctl' /= "configure") =>
              config'.chunk_size = bench.chunk_size]_vars

\* The benchmark ran with a chunk length below 300 strides that is not the
\* caller's, and the buffers are now configured for the caller's.
C32_Witness ==
    /\ ctl = "start"
    /\ bench.pc = "returned"
    /\ bench.chunk_size = 1999
    /\ bufset.m_in_chunk_size \in {1995, 1998}
    /\ bufset.m_out_chunk_size \in {399, 333}

\* ---- C33 ----
\* C33: for every task, 0 <= decode_chunks_finished <= decode_chunks_started
\* <= num_chunks; neither counter ever decreases; and a task in the decode
\* queue has decode_chunks_started < num_chunks.
C33_CounterBounds ==
    /\ [](\A t \in DOMAIN tasks :
              /\ tasks[t].num_chunks >= 1
              /\ 0 <= tasks[t].decode_chunks_finished
              /\ tasks[t].decode_chunks_finished <= tasks[t].decode_chunks_started
              /\ tasks[t].decode_chunks_started <= tasks[t].num_chunks
              /\ InDecodeQueue(t) =>
                     tasks[t].decode_chunks_started < tasks[t].num_chunks)
    /\ [][\A t \in DOMAIN tasks :
              /\ tasks'[t].decode_chunks_started >= tasks[t].decode_chunks_started
              /\ tasks'[t].decode_chunks_finished >= tasks[t].decode_chunks_finished
              /\ tasks'[t].num_chunks = tasks[t].num_chunks]_vars

\* A task of two chunks has left the queue with one chunk counted and the
\* other still being decoded.
C33_Witness ==
    \E t \in DOMAIN tasks :
        /\ tasks[t].num_chunks = 2
        /\ tasks[t].decode_chunks_started = 2
        /\ tasks[t].decode_chunks_finished = 1
        /\ ~InDecodeQueue(t)

\* ---- C34 ----
\* Task t has been handed to the decode threads and is not fully decoded.
InDecodeStage(t) ==
    \/ InDecodeQueue(t)
    \/ /\ tasks[t].decode_chunks_started >= 1
       /\ tasks[t].decode_chunks_finished < tasks[t].num_chunks

\* C34: the decode queue never holds more than one task, at most one task is
\* in the decode stage at any time, and when the compute thread is about to
\* hand a task over, every task it dequeued before has left the decode queue
\* and is fully decoded.
C34_OneTaskPerStage ==
    /\ Len(m_decode_queue) <= 1
    /\ Cardinality({t \in DOMAIN tasks : InDecodeStage(t)}) <= 1
    /\ mpc = "handoff" =>
           \A t \in DOMAIN tasks :
               (t /= mtask /\ tasks[t].submitted) =>
                   /\ ~InDecodeQueue(t)
                   /\ tasks[t].decode_chunks_finished = tasks[t].num_chunks

\* ---- C35 ----
\* C35: when the constructor has auto-tuned, the buffers in effect from the
\* moment the threads are about to be started are those set_chunk_batch_size
\* makes for the caller's chunk length and the batch size the benchmark
\* returned; and no thread is started before.
C35_FinalConfiguration ==
    /\ (bench.pc = "returned" /\ ctl \in {"start", "idle"}) =>
           /\ config.chunk_size = bench.chunk_size
           /\ config.batch_size = bench.best_batch_size
           /\ bufset = SetChunkBatchSizeResult(
                           [config EXCEPT !.chunk_size = bench.chunk_size,
                                          !.batch_size = bench.best_batch_size])
    /\ ctl /= "idle" => (mpc = "unstarted" /\ m_decode_threads = EmptyBag)

\* The threads run with the caller's chunk length and a batch size that is not
\* the last candidate's, after a benchmark at a reduced chunk length.
C35_Witness ==
    /\ ctl = "idle"
    /\ mpc = "wait"
    /\ bench.pc = "returned"
    /\ bench.chunk_size = 2000
    /\ Len(bench.tried) >= 2
    /\ bench.best_batch_size /= bench.tried[Len(bench.tried)][1]
    /\ bufset.m_in_chunk_size = 2000
    /\ bufset.m_batch_size = bench.best_batch_size

\* ---- C36 ----
\* Task t was enqueued while the caller was terminated (TerminatedSpec: every
\* task but the first).
EnqueuedWhileTerminated(t) == t >= 2

\* C36: while the caller is terminated, a task enqueued by call_chunks stays
\* in the input queue, with no completion id, no submission and its client
\* not returned; and after restart() no such task is left with a submission
\* that cannot proceed.
C36_SurvivesRestart ==
    /\ mpc = "unstarted" =>
           \A t \in DOMAIN tasks :
               EnqueuedWhileTerminated(t) =>
                   /\ \E i \in 1..Len(m_input_queue) : m_input_queue[i] = t
                   /\ Id(t) = 0
                   /\ ~tasks[t].submitted
                   /\ tasks[t].decode_chunks_started = 0
                   /\ tasks[t].client /= "returned"
    /\ \A t \in DOMAIN tasks :
           (EnqueuedWhileTerminated(t) /\ mtask = t) => ~SubmissionBlocked

\* ---- C37 ----
\* The keys of a client's cache, in the order of working_channel_mux_keys.
WorkingKeys(client_id) == m_read_caches[client_id].working_channel_mux_keys
ReadMap(client_id) == m_read_caches[client_id].channel_mux_read_map

\* C37: in every client's cache the keys of channel_mux_read_map are exactly
\* the entries of working_channel_mux_keys, none of them twice, and there are
\* at most m_max_num_keys of them. working_channel_mux_keys changes only by a
\* new key appended at its end, with or without the removal of its front, so
\* its front is the key inserted first; a key leaves the map of a cache that
\* stays only when a new key arrives with the cache at the limit, the key
\* that leaves is that front, and all its reads go to the sink.
C37_KeysAndEviction ==
    /\ [](\A c \in DOMAIN m_read_caches :
            /\ {WorkingKeys(c)[i] : i \in 1..Len(WorkingKeys(c))} = DOMAIN ReadMap(c)
            /\ Len(WorkingKeys(c)) = Cardinality(DOMAIN ReadMap(c))
            /\ Len(WorkingKeys(c)) <= m_max_num_keys)
    /\ [][\A c \in DOMAIN m_read_caches \cap DOMAIN m_read_caches' :
            LET keys == WorkingKeys(c)
                keys2 == m_read_caches'[c].working_channel_mux_keys
                map == ReadMap(c)
                map2 == m_read_caches'[c].channel_mux_read_map
            IN /\ \/ keys2 = keys
                  \/ /\ keys2 /= <<>>
                     /\ keys2[Len(keys2)] \notin DOMAIN map
                     /\ \/ SubSeq(keys2, 1, Len(keys2) - 1) = keys
                        \/ /\ keys /= <<>>
                           /\ SubSeq(keys2, 1, Len(keys2) - 1) = Tail(keys)
               /\ \A k \in DOMAIN map \ DOMAIN map2 :
                     /\ k = Head(keys)
                     /\ Len(keys) = m_max_num_keys
                     /\ Len(keys2) = m_max_num_keys
                     /\ DOMAIN map2 = (DOMAIN map \ {k}) \cup {keys2[Len(keys2)]}
                     /\ sink' = sink (+) SentReads(map[k])]_vars

\* BY_CHANNEL: client 1's cache has lost the key of the first read of the
\* prefix to a read from a new pore.
C37_Witness ==
    /\ m_max_num_keys = ByChannelMaxNumKeys
    /\ 1 \in DOMAIN m_read_caches
    /\ Len(WorkingKeys(1)) = ByChannelMaxNumKeys
    /\ UniquePoreIdentifierKey(Prefix("BY_CHANNEL")[1]) \notin DOMAIN ReadMap(1)
    /\ WorkingKeys(1)[ByChannelMaxNumKeys][1] = ByChannelMaxNumKeys + 1
    /\ BagIn(ReadMessage(Prefix("BY_CHANNEL")[1]), sink)

\* ---- C38 ----
Reads(cached_read_list) == {cached_read_list[i] : i \in 1..Len(cached_read_list)}

\* C38: every cached list is sorted by start_time_ms in non-decreasing order
\* and holds at most m_max_num_reads reads. When a worker has put a read into
\* a list that exists, the list holds the reads it held and the new one less
\* those removed for the limit; the reads removed are no later than any read
\* kept, and each of them has gone to the sink.
C38_SortedAndTrimmed ==
    /\ [](\A c \in DOMAIN m_read_caches : \A k \in DOMAIN ReadMap(c) :
            /\ \A i \in 1..(Len(ReadMap(c)[k]) - 1) :
                  ReadMap(c)[k][i].start_time_ms <= ReadMap(c)[k][i + 1].start_time_ms
            /\ Len(ReadMap(c)[k]) <= m_max_num_reads)
    /\ [][\A w \in BagToSet(m_workers) :
            (w.pc = "cache" /\ ~BagIn(w, m_workers')) =>
                LET read == w.message.read
                    c == read.client_id
                    k == UniquePoreIdentifierKey(read)
                IN (c \in DOMAIN m_read_caches /\ k \in DOMAIN ReadMap(c)) =>
                      LET list == ReadMap(c)[k]
                          list2 == m_read_caches'[c].channel_mux_read_map[k]
                          removed == (Reads(list) \cup {read}) \ Reads(list2)
                      IN /\ Reads(list2) \subseteq Reads(list) \cup {read}
                         /\ Len(list2) = Min(Len(list) + 1, m_max_num_reads)
                         /\ \A r \in removed : \A r2 \in Reads(list2) :
                               r.start_time_ms <= r2.start_time_ms
                         /\ sink' = sink (+) SetToBag({ReadMessage(r) : r \in removed})]_vars

\* BY_TIME: the list of the prefix's pore is full, holds a read that came
\* after the prefix and has lost the first read of the prefix to the sink.
C38_Witness ==
    /\ m_max_num_reads = ByTimeMaxNumReads
    /\ 1 \in DOMAIN m_read_caches
    /\ LET k == UniquePoreIdentifierKey(Prefix("BY_TIME")[1])
       IN /\ k \in DOMAIN ReadMap(1)
          /\ Len(ReadMap(1)[k]) = ByTimeMaxNumReads
          /\ \E r \in Reads(ReadMap(1)[k]) : r.read_id > ByTimeMaxNumReads
          /\ Prefix("BY_TIME")[1] \notin Reads(ReadMap(1)[k])
    /\ BagIn(ReadMessage(Prefix("BY_TIME")[1]), sink)

\* ---- C39 ----
\* The ids of the reads in a work queue, in a bag of workers that have popped
\* a read and not yet cached it, in the caches and among the read messages of
\* a sink.
QueuedIds(queue) ==
    {queue[i].read.read_id : i \in {j \in 1..Len(queue) : queue[j].kind = "read"}}

HeldIds(workers) ==
    {w.message.read.read_id : w \in {x \in DOMAIN workers : x.pc = "cache"}}

CachedIds(caches) ==
    UNION {UNION {{caches[c].channel_mux_read_map[k][i].read_id :
                      i \in 1..Len(caches[c].channel_mux_read_map[k])} :
                  k \in DOMAIN caches[c].channel_mux_read_map} :
           c \in DOMAIN caches}

SinkIds(messages) ==
    {m.read.read_id : m \in {x \in DOMAIN messages : x.kind = "read"}}

\* The ids of the reads that are somewhere in the node or in the sink.
LocatedIds(queue, workers, caches, messages) ==
    QueuedIds(queue) \cup HeldIds(workers) \cup CachedIds(caches) \cup SinkIds(messages)

\* The number of places in the lists of a map, and in the caches of a set of
\* clients.
RECURSIVE MapCount(_, _)
MapCount(channel_mux_read_map, keys) ==
    IF keys = {}
    THEN 0
    ELSE LET key == CHOOSE k \in keys : TRUE
         IN Len(channel_mux_read_map[key]) + MapCount(channel_mux_read_map, keys \ {key})

RECURSIVE CachedCount(_)
CachedCount(clients) ==
    IF clients = {}
    THEN 0
    ELSE LET c == CHOOSE x \in clients : TRUE
         IN MapCount(ReadMap(c), DOMAIN ReadMap(c)) + CachedCount(clients \ {c})

\* No read is in two places of the queue, of the workers' hands, of the caches
\* or of the sink, and the sink holds one read message for each of its reads.
NowhereTwice ==
    /\ \A i, j \in 1..Len(m_work_queue) :
          (i < j /\ m_work_queue[i].kind = "read" /\ m_work_queue[j].kind = "read") =>
              m_work_queue[i].read.read_id /= m_work_queue[j].read.read_id
    /\ \A w \in DOMAIN m_workers : w.pc = "cache" => m_workers[w] = 1
    /\ \A w, x \in DOMAIN m_workers :
          (w /= x /\ w.pc = "cache" /\ x.pc = "cache") =>
              w.message.read.read_id /= x.message.read.read_id
    /\ Cardinality(CachedIds(m_read_caches)) = CachedCount(DOMAIN m_read_caches)
    /\ \A m \in DOMAIN sink : m.kind = "read" => sink[m] = 1
    /\ \A m, n \in DOMAIN sink :
          (m /= n /\ m.kind = "read" /\ n.kind = "read") =>
              m.read.read_id /= n.read.read_id

\* The ids of the reads that are somewhere before a step and after it. A step
\* that leaves the caches and the sink alone leaves the ids they hold alone.
Located == LocatedIds(m_work_queue, m_workers, m_read_caches, sink)

LocatedNext ==
    IF m_read_caches' = m_read_caches /\ sink' = sink
    THEN QueuedIds(m_work_queue') \cup HeldIds(m_workers')
             \cup (Located \ (QueuedIds(m_work_queue) \cup HeldIds(m_workers)))
    ELSE LocatedIds(m_work_queue', m_workers', m_read_caches', sink')

\* The last worker has left and terminate was called without
\* preserve_pairing_caches.
LastWorkerExited ==
    /\ pairing_ctl = "joining"
    /\ ~m_preserve_cache_during_flush
    /\ \A w \in BagToSet(m_workers) : w.pc = "done"

\* C39: a read is at any time in exactly one place: the work queue, the hands
\* of the worker that popped it, a cache, or the sink as one read message. No
\* step loses a read or takes one out of the sink, and the only read a step
\* adds is the one it pushes. Once the last worker has exited after a
\* terminate without preserve_pairing_caches, the caches are empty and no
\* worker holds a read, so every read that was popped is in the sink once.
C39_ForwardedExactlyOnce ==
    /\ [](/\ NowhereTwice
          /\ \A here \in {QueuedIds(m_work_queue)}, held \in {HeldIds(m_workers)},
                cached \in {CachedIds(m_read_caches)}, sent \in {SinkIds(sink)} :
                /\ here \cap held = {}
                /\ (here \cup held) \cap cached = {}
                /\ (here \cup held \cup cached) \cap sent = {}
                /\ 1..ByChannelMaxNumKeys \subseteq cached \cup sent
          /\ LastWorkerExited =>
                /\ m_read_caches = <<>>
                /\ HeldIds(m_workers) = {})
    /\ [][/\ sink \sqsubseteq sink'
          /\ \A before \in {Located}, after \in {LocatedNext} :
                /\ before \subseteq after
                /\ after \ before \subseteq {num_pushed + 1}]_vars

\* The last worker has exited without preserve_pairing_caches with the queue
\* empty; the first and the last message pushed after the prefix were reads
\* and both are in the sink.
C39_Witness ==
    /\ LastWorkerExited
    /\ m_work_queue = <<>>
    /\ m_read_caches = <<>>
    /\ num_pushed = ByChannelMaxNumKeys + MaxMessages
    /\ {ByChannelMaxNumKeys + 1, ByChannelMaxNumKeys + MaxMessages} \subseteq SinkIds(sink)

====
